---- MODULE Spec2Model ----
(***************************************************************************)
(* Verification model of the AI Strategy Factory pipeline:                 *)
(*   - SynthesisOrchestrator.synthesize (dependency-ordered generation),   *)
(*   - the CLI commands run / resume driving the phases and the ledger,    *)
(*   - the PDF tool's ProgressTracker (progress.json, temp-write + rename), *)
(*   - the provider clients: retry loops, cost counters, research cache.   *)
(***************************************************************************)
EXTENDS Integers, Sequences, FiniteSets, TLC

(***************************************************************************)
(* Bounds of the model                                                     *)
(***************************************************************************)
\* provider calls of one behaviour that may deviate from a nominal answer
\* (an error after all retries, or an empty text)
MaxDeviations == 3
\* CLI commands issued in one behaviour
MaxCommands == 2
\* deviations and raised exceptions over all the commands of a CLI session
MaxCliDeviations == 1
\* runs of the PDF tool in one behaviour
MaxPdfRuns == 3
\* chunks of the PDF the tool processes
NumChunks == 2
\* research sessions (ResearchOrchestrator instances) in one behaviour
MaxSessions == 2
\* provider calls of the client behaviours that need more than one attempt
MaxRetriedCalls == 1
\* research sessions of one behaviour that end before research() returns
MaxAborts == 1
\* direct GeminiClient.generate calls in one behaviour
MaxGeminiCalls == 2
\* hours the clock may reach
MaxClock == 24

(***************************************************************************)
(* Configuration: config.py                                                *)
(***************************************************************************)
ALL_MARKDOWN == "ALL_MARKDOWN"

DELIVERABLES ==
    [d \in {"01_tech_inventory", "02_pain_points", "03_mermaid_diagrams",
            "04_maturity_assessment", "05_roadmap", "06_quick_wins",
            "07_vendor_comparison", "08_license_consolidation",
            "09_roi_calculator", "10_ai_policy", "11_data_governance",
            "12_prompt_library", "13_glossary", "14_use_case_library",
            "15_change_management", "executive_summary_deck",
            "full_findings_presentation", "final_strategy_report",
            "statement_of_work"} |->
      CASE d = "01_tech_inventory" -> [format |-> "markdown", dependencies |-> <<>>]
        [] d = "02_pain_points" -> [format |-> "markdown", dependencies |-> <<>>]
        [] d = "03_mermaid_diagrams" ->
             [format |-> "markdown", dependencies |-> <<"01_tech_inventory", "02_pain_points">>]
        [] d = "04_maturity_assessment" ->
             [format |-> "markdown", dependencies |-> <<"01_tech_inventory", "02_pain_points">>]
        [] d = "05_roadmap" ->
             [format |-> "markdown", dependencies |-> <<"04_maturity_assessment", "14_use_case_library">>]
        [] d = "06_quick_wins" ->
             [format |-> "markdown", dependencies |-> <<"14_use_case_library", "04_maturity_assessment">>]
        [] d = "07_vendor_comparison" ->
             [format |-> "markdown", dependencies |-> <<"01_tech_inventory", "14_use_case_library">>]
        [] d = "08_license_consolidation" ->
             [format |-> "markdown", dependencies |-> <<"01_tech_inventory", "07_vendor_comparison">>]
        [] d = "09_roi_calculator" ->
             [format |-> "markdown", dependencies |-> <<"06_quick_wins", "14_use_case_library">>]
        [] d = "10_ai_policy" ->
             [format |-> "markdown", dependencies |-> <<"04_maturity_assessment">>]
        [] d = "11_data_governance" ->
             [format |-> "markdown", dependencies |-> <<"01_tech_inventory", "10_ai_policy">>]
        [] d = "12_prompt_library" ->
             [format |-> "markdown", dependencies |-> <<"14_use_case_library">>]
        [] d = "13_glossary" -> [format |-> "markdown", dependencies |-> <<>>]
        [] d = "14_use_case_library" ->
             [format |-> "markdown", dependencies |-> <<"01_tech_inventory", "02_pain_points">>]
        [] d = "15_change_management" ->
             [format |-> "markdown", dependencies |-> <<"05_roadmap", "14_use_case_library">>]
        [] d = "executive_summary_deck" ->
             [format |-> "pptx", dependencies |-> <<ALL_MARKDOWN>>]
        [] d = "full_findings_presentation" ->
             [format |-> "pptx", dependencies |-> <<ALL_MARKDOWN>>]
        [] d = "final_strategy_report" ->
             [format |-> "docx", dependencies |-> <<ALL_MARKDOWN>>]
        [] d = "statement_of_work" ->
             [format |-> "docx",
              dependencies |-> <<"05_roadmap", "06_quick_wins", "09_roi_calculator">>]]

\* RETRY_CONFIG["max_retries"]
max_retries == 3
initial_delay == 5
max_delay == 60
backoff_multiplier == 2

\* the levels with the second and the third exchanged
GENERATION_ORDER_exchanged ==
    << <<"01_tech_inventory", "02_pain_points", "13_glossary">>,
       <<"03_mermaid_diagrams", "06_quick_wins", "07_vendor_comparison">>,
       <<"04_maturity_assessment", "14_use_case_library">>,
       <<"05_roadmap", "08_license_consolidation", "09_roi_calculator", "10_ai_policy">>,
       <<"11_data_governance", "12_prompt_library", "15_change_management">> >>

\* SynthesisOrchestrator.GENERATION_ORDER
GENERATION_ORDER ==
    << <<"01_tech_inventory", "02_pain_points", "13_glossary">>,
       <<"04_maturity_assessment", "14_use_case_library">>,
       <<"03_mermaid_diagrams", "06_quick_wins", "07_vendor_comparison">>,
       <<"05_roadmap", "08_license_consolidation", "09_roi_calculator", "10_ai_policy">>,
       <<"11_data_governance", "12_prompt_library", "15_change_management">> >>

(***************************************************************************)
(* Helpers on sequences and dicts                                          *)
(***************************************************************************)
Range(s) == {s[i] : i \in 1..Len(s)}

\* a Python dict: a function whose DOMAIN is the set of keys
EmptyDict == [k \in {} |-> 0]

\* d[k] = v
DictSet(d, k, v) == [x \in (DOMAIN d) \cup {k} |-> IF x = k THEN v ELSE d[x]]

\* DELIVERABLES.get(d, {}).get("dependencies", [])
Dependencies(d) ==
    IF d \in DOMAIN DELIVERABLES THEN DELIVERABLES[d].dependencies ELSE <<>>

\* [d_id for d_id, config in DELIVERABLES.items() if config.get("format") == "markdown"]
MarkdownDeliverables == {d \in DOMAIN DELIVERABLES : DELIVERABLES[d].format = "markdown"}

\* the order in which the dict DELIVERABLES lists its markdown entries
MarkdownList ==
    <<"01_tech_inventory", "02_pain_points", "03_mermaid_diagrams",
      "04_maturity_assessment", "05_roadmap", "06_quick_wins",
      "07_vendor_comparison", "08_license_consolidation", "09_roi_calculator",
      "10_ai_policy", "11_data_governance", "12_prompt_library", "13_glossary",
      "14_use_case_library", "15_change_management">>

(***************************************************************************)
(* State                                                                   *)
(***************************************************************************)
VARIABLES
    \* SynthesisOrchestrator / synthesize
    synth_pc,               \* "idle", "running", "returned", "aborted"
    target_deliverables,    \* synthesize: the list of requested ids
    work_idx,               \* position of the nested loops of synthesize
    generated_content,      \* self.generated_content: id -> content text
    errors,                 \* self.errors
    generated_deliverables, \* context_builder.generated_deliverables
    \* GeminiClient
    total_cost,
    request_count,
    \* observation of the external synthesis provider
    provider_calls,         \* one record per generate_markdown call
    deviations,             \* non-nominal provider answers so far
    \* pdf_to_cheatsheet.py: the process, its ProgressTracker and its files
    pdf_pc,                 \* position of the process; "dead" when none runs
    pdf_op,                 \* the tracker call in progress or last returned
    pdf_state,              \* ProgressTracker.state
    pdf_files,              \* progress directory: file name -> content
    pdf_i,                  \* main: index of the chunk loop
    pdf_runs,               \* processes started so far
    pdf_clock,              \* datetime.now() as a logical clock
    load_outcome,           \* what the last _load_state found on disk
    pre_file,               \* ledger file when the last mutator was called
    post_doc,               \* complete document that mutator has to persist
    \* main.py: the CLI process, the ledger (state.json) and the output files
    cli_pc,                 \* position of the running command; "idle" if none
    cli_cmd,                \* the command running or last run
    cli_args,               \* its flags
    commands,               \* commands issued so far
    exit_code,              \* exit code of the last command, -1 while running
    ledger,                 \* ProgressTracker state, as persisted
    md_files,               \* <company>/markdown: deliverable id -> content
    synthesis_output,       \* cmd_run / cmd_resume: local synthesis_output
    completed_deliverables, \* cmd_resume: local completed_deliverables
    phase_call,             \* the last phase transition asked of the tracker
    at_start,               \* ledger and files when the command started
    gen_result,             \* the GenerationResult generate_all returned last
    \* research: ResearchOrchestrator, PerplexityClient, research_cache.json
    px_pc,                  \* "none", or "researching" inside research()
    sessions,               \* research sessions started so far
    rs_mode,                \* ResearchOrchestrator.mode
    info_tier,              \* ResearchOrchestrator.info_tier
    rs_idx,                 \* position in the queries of the session
    results,                \* ResearchOrchestrator.results: name -> error?
    px_cache,               \* PerplexityClient.cache, in insertion order
    cache_file,             \* <output_dir>/research_cache.json
    px_total_cost,          \* PerplexityClient.total_cost, in 1e-4 dollars
    query_count,            \* PerplexityClient.query_count
    px_calls,               \* cache keys sent to the provider in the session
    obtained,               \* results obtained by the finished sessions
    clock,                  \* hours since the behaviour began
    retried_calls,          \* calls so far that needed more than one attempt
    gemini_calls,           \* direct generate calls so far
    aborts,                 \* research sessions aborted so far
    last_call               \* observation of the last client call

synth_vars == <<synth_pc, target_deliverables, work_idx, generated_content,
                errors, generated_deliverables, total_cost, request_count,
                provider_calls, deviations>>

pdf_vars == <<pdf_pc, pdf_op, pdf_state, pdf_files, pdf_i, pdf_runs, pdf_clock,
              load_outcome, pre_file, post_doc>>

cli_vars == <<cli_pc, cli_cmd, cli_args, commands, exit_code, ledger, md_files,
              synthesis_output, completed_deliverables, phase_call, at_start,
              gen_result>>

client_vars == <<px_pc, sessions, rs_mode, info_tier, rs_idx, results, px_cache,
                 cache_file, px_total_cost, query_count, px_calls, obtained,
                 clock, retried_calls, gemini_calls, aborts, last_call>>

vars == <<synth_vars, pdf_vars, cli_vars, client_vars>>

(***************************************************************************)
(* External synthesis provider and GeminiClient                            *)
(***************************************************************************)
\* texts the provider may answer with; "" is an empty answer
NominalText == "md"
Texts == {"", NominalText}

generate_refund(failing, text) ==
    IF failing < max_retries
    THEN [content |-> text, cost_estimate |-> 1, error |-> "",
          attempts |-> failing + 1]
    ELSE [content |-> "", cost_estimate |-> 0 - 1, error |-> "provider error",
          attempts |-> max_retries]

\* GeminiClient.generate: `failing` attempts raise before the first one that
\* answers `text`; the loop makes at most max_retries attempts
generate(failing, text) ==
    IF failing < max_retries
    THEN [content |-> text, cost_estimate |-> 1, error |-> "",
          attempts |-> failing + 1]
    ELSE [content |-> "", cost_estimate |-> 0, error |-> "provider error",
          attempts |-> max_retries]

\* GeminiClient.generate_markdown: generate plus the table post-processing,
\* which leaves an empty answer empty
generate_markdown(failing, text) == generate(failing, text)

\* the answer is not the nominal one
Deviates(failing, text) == failing >= max_retries \/ text # NominalText

\* the deviations explored: fewer under the CLI, whose sessions are longer
DeviationBudget == IF cli_pc = "idle" THEN MaxDeviations ELSE MaxCliDeviations

(***************************************************************************)
(* SynthesisOrchestrator                                                   *)
(***************************************************************************)
\* the comprehension turned round: the targets that are in the level
level_deliverables_targets(level, targets) ==
    SelectSeq(targets, LAMBDA d : d \in Range(level))

\* level_deliverables = [d for d in level if d in target_deliverables]
level_deliverables(level, targets) == SelectSeq(level, LAMBDA d : d \in Range(targets))

RECURSIVE WorkFrom(_, _)
\* the ids visited by the nested loops over GENERATION_ORDER, in order
WorkFrom(level_index, targets) ==
    IF level_index > Len(GENERATION_ORDER) THEN <<>>
    ELSE level_deliverables(GENERATION_ORDER[level_index], targets)
         \o WorkFrom(level_index + 1, targets)

\* the loops end after the first level
WorkList_first_level(targets) == level_deliverables(GENERATION_ORDER[1], targets)

\* the ids visited by synthesize, in order
WorkList(targets) == WorkFrom(1, targets)

\* _check_dependencies looking the prerequisite up in the configuration
\* instead of the completed set
_check_dependencies_config(deliverable_id, content) ==
    \A i \in 1..Len(Dependencies(deliverable_id)) :
        LET dep == Dependencies(deliverable_id)[i]
        IN  dep = ALL_MARKDOWN \/ dep \in DOMAIN DELIVERABLES

\* SynthesisOrchestrator._check_dependencies
_check_dependencies(deliverable_id, content) ==
    \A i \in 1..Len(Dependencies(deliverable_id)) :
        LET dep == Dependencies(deliverable_id)[i]
        IN  dep = ALL_MARKDOWN \/ dep \in DOMAIN content

\* _record_error assigning the list instead of appending to it
_record_error_assign(errs, deliverable_id, error) ==
    <<[deliverable_id |-> deliverable_id, error |-> error]>>

\* SynthesisOrchestrator._record_error
_record_error(errs, deliverable_id, error) ==
    Append(errs, [deliverable_id |-> deliverable_id, error |-> error])

\* SynthesisOrchestrator._generate_deliverable: the DeliverableContent built
\* from the provider's result
_generate_deliverable(deliverable_id, result) ==
    IF result.error # ""
    THEN [deliverable_id |-> deliverable_id, content |-> "", error |-> result.error]
    ELSE [deliverable_id |-> deliverable_id, content |-> result.content, error |-> ""]

\* the registration is left out
register_deliverable_dropped(registry, deliverable_id, content) == registry

\* ContextBuilder.register_deliverable
register_deliverable(registry, deliverable_id, content) ==
    DictSet(registry, deliverable_id, content)

\* ContextBuilder._get_dependencies: the registered contents of the
\* prerequisites, of every registered markdown deliverable for ALL_MARKDOWN
_get_dependencies(deliverable_id, registry) ==
    LET dependencies == IF deliverable_id \in DOMAIN DELIVERABLES
                        THEN Range(Dependencies(deliverable_id)) ELSE {}
        ids == {d \in DOMAIN registry :
                   \/ d \in dependencies
                   \/ ALL_MARKDOWN \in dependencies /\ d \in MarkdownDeliverables}
    IN  [d \in ids |-> registry[d]]

\* the test of synthesize without its `not content.error` half
ContentOk_any(content) == TRUE

\* synthesize: `if content and not content.error`
ContentOk(content) == content.error = ""

\* the orchestrator as constructed by __init__
FreshOrchestrator ==
    /\ generated_content = EmptyDict
    /\ errors = <<>>
    /\ generated_deliverables = EmptyDict
    /\ total_cost = 0
    /\ request_count = 0
    /\ provider_calls = <<>>

\* synthesize, up to the first iteration of the loops
synthesize_enter(deliverables) ==
    /\ synth_pc = "idle"
    /\ target_deliverables' =
          IF deliverables # <<>> THEN deliverables ELSE MarkdownList
    /\ work_idx' = 1
    /\ synth_pc' = "running"
    /\ UNCHANGED <<generated_content, errors, generated_deliverables,
                   total_cost, request_count, provider_calls, deviations>>

\* synthesize called directly on a fresh orchestrator
Synthesize(deliverables) ==
    /\ UNCHANGED <<pdf_vars, cli_vars, client_vars>>
    /\ synthesize_enter(deliverables)

CurrentDeliverable == WorkList(target_deliverables)[work_idx]

\* one iteration whose dependency check fails
DependenciesNotMet ==
    /\ UNCHANGED <<pdf_vars, cli_vars, client_vars>>
    /\ synth_pc = "running"
    /\ work_idx <= Len(WorkList(target_deliverables))
    /\ ~ _check_dependencies(CurrentDeliverable, generated_content)
    /\ errors' = _record_error(errors, CurrentDeliverable, "Dependencies not met")
    /\ work_idx' = work_idx + 1
    /\ UNCHANGED <<synth_pc, target_deliverables, generated_content,
                   generated_deliverables, total_cost, request_count,
                   provider_calls, deviations>>

\* one iteration that calls the provider
GenerateDeliverable ==
    /\ UNCHANGED <<pdf_vars, cli_vars, client_vars>>
    /\ synth_pc = "running"
    /\ work_idx <= Len(WorkList(target_deliverables))
    /\ _check_dependencies(CurrentDeliverable, generated_content)
    /\ \E failing \in 0..max_retries, text \in Texts :
         LET d == CurrentDeliverable
             result == generate_markdown(failing, text)
             content == _generate_deliverable(d, result)
         IN  /\ Deviates(failing, text) => deviations < DeviationBudget
             /\ failing >= max_retries => text = ""
             /\ deviations' = IF Deviates(failing, text)
                              THEN deviations + 1 ELSE deviations
             /\ provider_calls' =
                   Append(provider_calls,
                          [id |-> d, ok |-> result.error = "",
                           context |-> _get_dependencies(d, generated_deliverables)])
             /\ total_cost' = total_cost + result.cost_estimate
             /\ request_count' =
                   IF result.error = "" THEN request_count + 1 ELSE request_count
             /\ IF ContentOk(content)
                THEN /\ generated_content' = DictSet(generated_content, d, content.content)
                     /\ generated_deliverables' =
                           register_deliverable(generated_deliverables, d,
                                                content.content)
                     /\ UNCHANGED errors
                ELSE /\ errors' = _record_error(errors, d, content.error)
                     /\ UNCHANGED <<generated_content, generated_deliverables>>
    /\ work_idx' = work_idx + 1
    /\ UNCHANGED <<synth_pc, target_deliverables>>

\* the loops are over: synthesize returns the SynthesisOutput
SynthesizeReturn ==
    /\ UNCHANGED <<pdf_vars, cli_vars, client_vars>>
    /\ synth_pc = "running"
    /\ work_idx > Len(WorkList(target_deliverables))
    /\ synth_pc' = "returned"
    /\ UNCHANGED <<target_deliverables, work_idx, generated_content, errors,
                   generated_deliverables, total_cost, request_count,
                   provider_calls, deviations>>

(***************************************************************************)
(* pdf_to_cheatsheet.py: ProgressTracker and the chunk loop of main        *)
(***************************************************************************)
\* chunk ids of the one PDF processed: f"{pdf_base}_chunk_{i:03d}"
chunk_id(i) == IF i = 0 THEN "guide_chunk_000"
               ELSE IF i = 1 THEN "guide_chunk_001"
               ELSE "guide_chunk_002"
ChunkIds == {chunk_id(i) : i \in 0..(NumChunks - 1)}
ChunkResults == {"cheat sheet"}
ChunkErrors == {"api error"}

\* file names inside the progress directory
ProgressFile == "progress.json"
\* _save_state writing the document under the ledger's own name
TempFile_inplace == "progress.json"
\* self.progress_file.with_suffix('.tmp')
TempFile == "progress.tmp"

\* self.chunks_dir / f"{chunk_id}.md", named here by the chunk id
ChunkFiles == ChunkIds

\* content of a name that does not exist
NoFile == <<"ENOENT">>

\* the dict _load_state returns when it starts fresh
FreshState ==
    [completed_chunks |-> <<>>, chunk_results |-> <<>>, failed_chunks |-> <<>>,
     last_updated |-> "never"]

RECURSIVE PairTokens(_)
\* the key/value tokens of an insertion-ordered dict or of a list of records
PairTokens(ps) ==
    IF ps = <<>> THEN <<>> ELSE <<ps[1][1], ps[1][2]>> \o PairTokens(Tail(ps))

\* json.dump(self.state, f): the document as a sequence of tokens
Dump(st) ==
    <<"{", "completed_chunks">> \o st.completed_chunks
    \o <<"chunk_results">> \o PairTokens(st.chunk_results)
    \o <<"failed_chunks">> \o PairTokens(st.failed_chunks)
    \o <<"last_updated", st.last_updated, "}">>

Keywords == {"{", "}", "completed_chunks", "chunk_results", "failed_chunks", "last_updated"}

\* positions of a token in a document
Positions(t, tok) == {i \in 1..Len(t) : t[i] = tok}

RECURSIVE Pairs(_)
\* the pairs of an even-length token list
Pairs(t) == IF Len(t) < 2 THEN <<>> ELSE <<<<t[1], t[2]>>>> \o Pairs(SubSeq(t, 3, Len(t)))

\* json.load accepts the document
IsDocument(t) ==
    /\ Len(t) >= 7
    /\ t[1] = "{" /\ t[2] = "completed_chunks"
    /\ t[Len(t)] = "}" /\ t[Len(t) - 2] = "last_updated"
    /\ t[Len(t) - 1] \notin Keywords
    /\ \A kw \in Keywords : Cardinality(Positions(t, kw)) = 1
    /\ LET r == CHOOSE i \in Positions(t, "chunk_results") : TRUE
           f == CHOOSE i \in Positions(t, "failed_chunks") : TRUE
       IN  /\ 2 < r /\ r < f /\ f < Len(t) - 2
           /\ (f - r - 1) % 2 = 0
           /\ (Len(t) - 2 - f - 1) % 2 = 0

\* json.load(f) of an accepted document
Parse(t) ==
    LET r == CHOOSE i \in Positions(t, "chunk_results") : TRUE
        f == CHOOSE i \in Positions(t, "failed_chunks") : TRUE
    IN  [completed_chunks |-> SubSeq(t, 3, r - 1),
         chunk_results |-> Pairs(SubSeq(t, r + 1, f - 1)),
         failed_chunks |-> Pairs(SubSeq(t, f + 1, Len(t) - 3)),
         last_updated |-> t[Len(t) - 1]]

\* _load_state without the except clause: the decode error propagates
_load_state_notry(files) ==
    IF files[ProgressFile] # NoFile
    THEN IF IsDocument(files[ProgressFile])
         THEN [raised |-> FALSE, found |-> "parsed", state |-> Parse(files[ProgressFile])]
         ELSE [raised |-> TRUE, found |-> "corrupt", state |-> FreshState]
    ELSE [raised |-> FALSE, found |-> "absent", state |-> FreshState]

\* ProgressTracker._load_state
_load_state(files) ==
    IF files[ProgressFile] # NoFile
    THEN IF IsDocument(files[ProgressFile])
         THEN [raised |-> FALSE, found |-> "parsed", state |-> Parse(files[ProgressFile])]
         ELSE [raised |-> FALSE, found |-> "corrupt", state |-> FreshState]
    ELSE [raised |-> FALSE, found |-> "absent", state |-> FreshState]

\* no chunk counts as completed
is_chunk_completed_never(st, c) == FALSE

\* ProgressTracker.is_chunk_completed
is_chunk_completed(st, c) == c \in Range(st.completed_chunks)

\* self.state['chunk_results'][chunk_id] = result on an insertion-ordered dict
OrderedSet(d, k, v) ==
    IF \E i \in 1..Len(d) : d[i][1] = k
    THEN [i \in 1..Len(d) |-> IF d[i][1] = k THEN <<k, v>> ELSE d[i]]
    ELSE Append(d, <<k, v>>)

\* the next value of datetime.now().isoformat()
Now == ToString(pdf_clock + 1)

PdfInit ==
    /\ pdf_pc = "dead"
    /\ pdf_op = "none"
    /\ pdf_state = FreshState
    /\ pdf_files = [n \in {ProgressFile, TempFile} \cup ChunkFiles |-> NoFile]
    /\ pdf_i = 0
    /\ pdf_runs = 0
    /\ pdf_clock = 0
    /\ load_outcome = "none"
    /\ pre_file = NoFile
    /\ post_doc = NoFile

\* main starts: ProgressTracker(base_dir / PROGRESS_FOLDER)
Construct ==
    /\ UNCHANGED <<synth_vars, cli_vars, client_vars>>
    /\ pdf_pc = "dead"
    /\ pdf_runs < MaxPdfRuns
    /\ pdf_runs' = pdf_runs + 1
    /\ LET loaded == _load_state(pdf_files)
       IN  /\ pdf_pc' = IF loaded.raised THEN "raised" ELSE "idle"
           /\ pdf_state' = loaded.state
           /\ load_outcome' = loaded.found
    /\ pdf_op' = "construct"
    /\ pdf_i' = 0
    /\ UNCHANGED <<pdf_files, pdf_clock, pre_file, post_doc>>

\* _save_state up to the open of the temporary file
BeginSave(op, st) ==
    /\ pdf_state' = [st EXCEPT !.last_updated = Now]
    /\ pdf_clock' = pdf_clock + 1
    /\ pdf_op' = op
    /\ pre_file' = pdf_files[ProgressFile]
    /\ post_doc' = Dump([st EXCEPT !.last_updated = Now])
    /\ pdf_pc' = "open"

\* mark_chunk_failed returning without _save_state
mark_chunk_failed_nosave(c, error) ==
    /\ pdf_state' = [pdf_state EXCEPT !.failed_chunks = Append(@, <<c, error>>)]
    /\ pdf_op' = "mark_chunk_failed"
    /\ pre_file' = pdf_files[ProgressFile]
    /\ post_doc' = pdf_files[ProgressFile]
    /\ pdf_pc' = "idle"
    /\ pdf_i' = pdf_i + 1
    /\ UNCHANGED <<pdf_clock, pdf_files>>

\* ProgressTracker.mark_chunk_completed
mark_chunk_completed(c, result) ==
    /\ BeginSave("mark_chunk_completed",
                 [pdf_state EXCEPT !.completed_chunks = Append(@, c),
                                   !.chunk_results = OrderedSet(@, c, result)])
    /\ pdf_files' = [pdf_files EXCEPT ![c] = <<result>>]
    /\ UNCHANGED pdf_i

\* ProgressTracker.mark_chunk_failed
mark_chunk_failed(c, error) ==
    /\ BeginSave("mark_chunk_failed",
                 [pdf_state EXCEPT !.failed_chunks = Append(@, <<c, error>>)])
    /\ UNCHANGED <<pdf_i, pdf_files>>

\* ProgressTracker.clear_progress, called by main for --reset-progress
ClearProgress ==
    /\ UNCHANGED <<synth_vars, cli_vars, client_vars>>
    /\ pdf_pc = "idle" /\ pdf_op = "construct"
    /\ BeginSave("clear_progress", FreshState)
    /\ UNCHANGED <<pdf_files, pdf_i, pdf_runs, load_outcome>>

\* main: the chunk was completed by an earlier run and is skipped
SkipCompleted ==
    /\ UNCHANGED <<synth_vars, cli_vars, client_vars>>
    /\ pdf_pc = "idle" /\ pdf_i < NumChunks
    /\ is_chunk_completed(pdf_state, chunk_id(pdf_i))
    /\ pdf_i' = pdf_i + 1
    /\ pdf_op' = "skip"
    /\ UNCHANGED <<pdf_pc, pdf_state, pdf_files, pdf_runs, pdf_clock,
                   load_outcome, pre_file, post_doc>>

\* main: synthesize_chunk answered and the chunk is marked completed
ChunkSucceeds ==
    /\ UNCHANGED <<synth_vars, cli_vars, client_vars>>
    /\ pdf_pc = "idle" /\ pdf_i < NumChunks
    /\ ~ is_chunk_completed(pdf_state, chunk_id(pdf_i))
    /\ \E result \in ChunkResults : mark_chunk_completed(chunk_id(pdf_i), result)
    /\ UNCHANGED <<pdf_runs, load_outcome>>

\* main: synthesize_chunk raised and the chunk is marked failed
ChunkFails ==
    /\ UNCHANGED <<synth_vars, cli_vars, client_vars>>
    /\ pdf_pc = "idle" /\ pdf_i < NumChunks
    /\ ~ is_chunk_completed(pdf_state, chunk_id(pdf_i))
    /\ \E error \in ChunkErrors : mark_chunk_failed(chunk_id(pdf_i), error)
    /\ UNCHANGED <<pdf_runs, load_outcome>>

\* _save_state: open(temp_file, 'w') creates or truncates the file
OpenTemp ==
    /\ UNCHANGED <<synth_vars, cli_vars, client_vars>>
    /\ pdf_pc = "open"
    /\ pdf_files' = [pdf_files EXCEPT ![TempFile] = <<>>]
    /\ pdf_pc' = "write"
    /\ UNCHANGED <<pdf_op, pdf_state, pdf_i, pdf_runs, pdf_clock, load_outcome,
                   pre_file, post_doc>>

\* _save_state: json.dump writes the next piece of the document
WriteTemp ==
    /\ UNCHANGED <<synth_vars, cli_vars, client_vars>>
    /\ pdf_pc = "write"
    /\ LET doc == Dump(pdf_state)
           written == pdf_files[TempFile]
       IN  /\ Len(written) < Len(doc)
           /\ pdf_files' = [pdf_files EXCEPT
                              ![TempFile] = Append(written, doc[Len(written) + 1])]
    /\ UNCHANGED <<pdf_pc, pdf_op, pdf_state, pdf_i, pdf_runs, pdf_clock,
                   load_outcome, pre_file, post_doc>>

\* _save_state: the file is closed and renamed over the ledger; the mutator
\* returns (clear_progress after unlinking the chunk files)
RenameTemp ==
    /\ UNCHANGED <<synth_vars, cli_vars, client_vars>>
    /\ pdf_pc = "write"
    /\ pdf_files[TempFile] = Dump(pdf_state)
    /\ pdf_files' = [n \in DOMAIN pdf_files |->
                        IF n = ProgressFile THEN pdf_files[TempFile]
                        ELSE IF n = TempFile THEN NoFile
                        ELSE IF pdf_op = "clear_progress" THEN NoFile
                        ELSE pdf_files[n]]
    /\ pdf_pc' = "idle"
    /\ pdf_i' = IF pdf_op = "clear_progress" THEN pdf_i ELSE pdf_i + 1
    /\ UNCHANGED <<pdf_op, pdf_state, pdf_runs, pdf_clock, load_outcome,
                   pre_file, post_doc>>

\* the process dies (kill, power loss of the process, uncaught exception):
\* memory is lost, the files stay as they are
Crash ==
    /\ UNCHANGED <<synth_vars, cli_vars, client_vars>>
    /\ pdf_pc \in {"idle", "open", "write", "raised"}
    /\ pdf_pc' = "dead"
    /\ pdf_state' = FreshState
    /\ UNCHANGED <<pdf_op, pdf_files, pdf_i, pdf_runs, pdf_clock, load_outcome,
                   pre_file, post_doc>>

\* main: the loop is over and the process exits
Exit ==
    /\ UNCHANGED <<synth_vars, cli_vars, client_vars>>
    /\ pdf_pc = "idle" /\ pdf_i >= NumChunks
    /\ pdf_pc' = "dead"
    /\ pdf_op' = "exit"
    /\ pdf_state' = FreshState
    /\ UNCHANGED <<pdf_files, pdf_i, pdf_runs, pdf_clock, load_outcome,
                   pre_file, post_doc>>

\* documents json.load rejects: an empty file, a truncated ledger, other text
CorruptDocs(file) ==
    {<<>>, <<"not json">>}
    \cup (IF file = NoFile THEN {}
          ELSE {SubSeq(file, 1, n) : n \in 1..(Len(file) - 1)})

\* between two runs something else damages the ledger file
Corrupt ==
    /\ UNCHANGED <<synth_vars, cli_vars, client_vars>>
    /\ pdf_pc = "dead"
    /\ pdf_runs < MaxPdfRuns
    /\ pdf_op # "corrupt"
    /\ \E doc \in CorruptDocs(pdf_files[ProgressFile]) :
          /\ pdf_files' = [pdf_files EXCEPT ![ProgressFile] = doc]
          /\ pre_file' = doc
          /\ post_doc' = doc
    /\ pdf_op' = "corrupt"
    /\ UNCHANGED <<pdf_pc, pdf_state, pdf_i, pdf_runs, pdf_clock, load_outcome>>

(***************************************************************************)
(* ProgressTracker of the pipeline (strategy_factory.progress_tracker)     *)
(***************************************************************************)
Phases == {"research", "synthesis", "generation"}

\* PipelineState of a company that was never run
NewLedger ==
    [exists |-> TRUE,
     current_phase |-> "research",
     phases |-> [p \in Phases |-> "pending"],
     deliverables |-> [d \in DOMAIN DELIVERABLES |-> "pending"],
     research_output |-> FALSE]

\* no state.json on disk
NoLedger == [NewLedger EXCEPT !.exists = FALSE]

\* ProgressTracker(company_name, ...): load the ledger or create it
ProgressTracker(l) == IF l.exists THEN l ELSE NewLedger

start_phase(l, p) == [l EXCEPT !.phases[p] = "in_progress", !.current_phase = p]

complete_phase(l, p) == [l EXCEPT !.phases[p] = "completed"]

fail_phase(l, p) == [l EXCEPT !.phases[p] = "failed"]

\* complete_deliverable(d, path) for every d of ids
complete_deliverable(l, ids) ==
    [l EXCEPT !.deliverables =
        [d \in DOMAIN l.deliverables |-> IF d \in ids THEN "completed" ELSE l.deliverables[d]]]

save_research_output(l) == [l EXCEPT !.research_output = TRUE]

\* reset(keep_research): the phase and deliverable state is cleared; the
\* research artifact survives when keep_research, else everything is deleted
reset(l, keep_research) ==
    IF keep_research
    THEN [NewLedger EXCEPT !.research_output = l.research_output]
    ELSE NoLedger

get_completed_deliverables(l) ==
    {d \in DOMAIN l.deliverables : l.deliverables[d] = "completed"}

(***************************************************************************)
(* main.py: StrategyFactoryCLI                                             *)
(***************************************************************************)
\* no flag given
NoArgs == [dry_run |-> FALSE, skip_research |-> FALSE, skip_synthesis |-> FALSE,
           skip_generation |-> FALSE, keep_research |-> FALSE]

\* flags of `run`: none, or one of them
RunArgs ==
    {NoArgs,
     [NoArgs EXCEPT !.dry_run = TRUE],
     [NoArgs EXCEPT !.skip_research = TRUE],
     [NoArgs EXCEPT !.skip_synthesis = TRUE],
     [NoArgs EXCEPT !.skip_generation = TRUE]}

\* a synthesis_output that is None
NoOutput == [present |-> FALSE, deliverables |-> EmptyDict]

NoCall == [op |-> "none", phase |-> "none", prior |-> "none"]

\* cmd_resume: final_deliverables
final_deliverables ==
    {"executive_summary_deck", "full_findings_presentation",
     "final_strategy_report", "statement_of_work"}

\* the calls generate_all wraps in a try of their own, by the key they record
Generators ==
    {"markdown_generation", "mermaid_rendering", "executive_summary_deck",
     "full_findings_presentation", "final_strategy_report", "statement_of_work"}

\* generate_all: the generator calls in the order they are made
GeneratorCalls ==
    <<"markdown_generation", "mermaid_rendering", "executive_summary_deck",
      "full_findings_presentation", "final_strategy_report", "statement_of_work">>

\* the component _record_error is given when the call raises
ErrorComponent(g) ==
    CASE g = "executive_summary_deck" -> "executive_summary_pptx"
      [] g = "full_findings_presentation" -> "full_findings_pptx"
      [] g = "final_strategy_report" -> "strategy_report_docx"
      [] g = "statement_of_work" -> "sow_docx"
      [] OTHER -> g

\* whether generate_all makes the call: _render_mermaid returns early
\* without a non-empty 03_mermaid_diagrams, the others are always made
Attempts(g, synthesis) ==
    g = "mermaid_rendering" =>
        "03_mermaid_diagrams" \in {k \in DOMAIN synthesis.deliverables :
                                      synthesis.deliverables[k] # ""}

\* the keys a call that succeeds adds to generated_files: save_all saves the
\* markdown deliverables with a content, the renderer its images
GeneratedKeys(g, synthesis) ==
    CASE g = "markdown_generation" ->
            {k \in DOMAIN synthesis.deliverables : synthesis.deliverables[k] # ""}
                \cap MarkdownDeliverables
      [] g = "mermaid_rendering" -> {"mermaid_current_state"}
      [] OTHER -> {g}

\* GenerationOrchestrator as constructed
NoGeneration ==
    [generated_files |-> {}, errors |-> <<>>, attempted |-> <<>>, raises |-> FALSE]

\* the calls of generate_all from the i-th on; the generators of `failing`
\* raise; with `wrapped` the exception is recorded by the except of the
\* call, without it the exception leaves generate_all
RECURSIVE generate_calls(_, _, _, _, _)
generate_calls(i, synthesis, failing, wrapped, acc) ==
    IF i > Len(GeneratorCalls) THEN acc
    ELSE LET g == GeneratorCalls[i]
             made == [acc EXCEPT !.attempted = Append(@, g)]
         IN  IF ~ Attempts(g, synthesis)
             THEN generate_calls(i + 1, synthesis, failing, wrapped, acc)
             ELSE IF g \notin failing
             THEN generate_calls(i + 1, synthesis, failing, wrapped,
                     [made EXCEPT !.generated_files = @ \cup GeneratedKeys(g, synthesis)])
             ELSE IF wrapped
             THEN generate_calls(i + 1, synthesis, failing, wrapped,
                     [made EXCEPT !.errors = Append(@, ErrorComponent(g))])
             ELSE [made EXCEPT !.raises = TRUE]

\* GenerationResult(success=len(self.errors) == 0, ...)
GenerationResult(r) ==
    [success |-> Len(r.errors) = 0, generated_files |-> r.generated_files,
     errors |-> r.errors, attempted |-> r.attempted, raises |-> r.raises]

\* generate_all with no try around the generator calls
generate_all_unwrapped(synthesis, failing) ==
    GenerationResult(generate_calls(1, synthesis, failing, FALSE, NoGeneration))

\* GenerationOrchestrator.generate_all on a fresh orchestrator
generate_all(synthesis, failing) ==
    GenerationResult(generate_calls(1, synthesis, failing, TRUE, NoGeneration))

\* no generate_all call made by the command
NoResult ==
    [present |-> FALSE, failing |-> {}, synthesis |-> {},
     result |-> GenerationResult(NoGeneration)]

\* MarkdownGenerator.save_deliverable: the metadata header is added once
WithMetadata(content) == IF content = "md" THEN "meta+md" ELSE content

\* d1 overwritten by the entries of d2
DictUpdate(d1, d2) ==
    [k \in (DOMAIN d1) \cup (DOMAIN d2) |-> IF k \in DOMAIN d2 THEN d2[k] ELSE d1[k]]

\* the entries of a dict with a non-empty text
NonEmpty(d) == {k \in DOMAIN d : d[k] # ""}

CliInit ==
    /\ cli_pc = "idle"
    /\ cli_cmd = "none"
    /\ cli_args = NoArgs
    /\ commands = 0
    /\ exit_code = -1
    /\ ledger = NoLedger
    /\ md_files = EmptyDict
    /\ synthesis_output = NoOutput
    /\ completed_deliverables = {}
    /\ phase_call = NoCall
    /\ at_start = [completed |-> {}, files |-> EmptyDict, keys |-> TRUE]
    /\ gen_result = NoResult

\* the process ends: nothing of its memory survives
MemoryLost ==
    /\ synth_pc' = "idle"
    /\ target_deliverables' = <<>>
    /\ work_idx' = 1
    /\ generated_content' = EmptyDict
    /\ errors' = <<>>
    /\ generated_deliverables' = EmptyDict
    /\ total_cost' = 0
    /\ request_count' = 0
    /\ provider_calls' = <<>>
    /\ synthesis_output' = NoOutput
    /\ completed_deliverables' = {}

\* the command handler returns `code`
Return(code) ==
    /\ cli_pc' = "idle"
    /\ exit_code' = code
    /\ MemoryLost

\* tracker.<op>(p) as the CLI calls it, with the status p had at the call
PhaseCall(op, p, l) == [op |-> op, phase |-> p, prior |-> l.phases[p]]

\* the credentials are left out of no check
_check_api_keys_lenient(keys) == TRUE

\* _check_api_keys: both PERPLEXITY_API_KEY and GEMINI_API_KEY are set
_check_api_keys(keys) == keys

\* a command is entered, in an environment that has the credentials or not
Enter(cmd, args, keys) ==
    /\ cli_pc = "idle"
    /\ commands < MaxCommands
    /\ commands' = commands + 1
    /\ cli_cmd' = cmd
    /\ cli_args' = args
    /\ at_start' = [completed |-> IF ledger.exists
                                  THEN get_completed_deliverables(ledger) ELSE {},
                    files |-> md_files,
                    keys |-> keys]
    /\ gen_result' = NoResult

\* the overview ends in an error code
_dry_run_error == 0 + 1

\* _dry_run: the pipeline overview is printed, nothing else is touched, and
\* the exit code is 0
_dry_run == 0

\* cmd_run up to the first provider call or to its return
CmdRun(args, keys) ==
    /\ UNCHANGED <<pdf_vars, client_vars>>
    /\ Enter("run", args, keys)
    /\ UNCHANGED md_files
    /\ IF args.dry_run
       THEN Return(_dry_run) /\ UNCHANGED <<ledger, phase_call, deviations>>
       ELSE IF ~ _check_api_keys(keys)
       THEN Return(1) /\ UNCHANGED <<ledger, phase_call, deviations>>
       ELSE LET tracker == ProgressTracker(ledger)
            IN  IF ~ args.skip_research
                THEN /\ ledger' = start_phase(tracker, "research")
                     /\ phase_call' = PhaseCall("start_phase", "research", tracker)
                     /\ cli_pc' = "research"
                     /\ exit_code' = -1
                     /\ UNCHANGED <<synth_vars, synthesis_output, completed_deliverables>>
                ELSE IF ~ tracker.research_output
                THEN /\ ledger' = tracker
                     /\ Return(1)
                     /\ UNCHANGED <<phase_call, deviations>>
                ELSE /\ ledger' = tracker
                     /\ cli_pc' = "after_research"
                     /\ exit_code' = -1
                     /\ UNCHANGED <<phase_call, synth_vars, synthesis_output,
                                    completed_deliverables>>

\* cmd_resume up to the first provider call or to its return
CmdResume(keys) ==
    /\ UNCHANGED <<pdf_vars, client_vars>>
    /\ Enter("resume", NoArgs, keys)
    /\ UNCHANGED <<md_files, ledger>>
    /\ IF ~ ledger.exists \/ ~ _check_api_keys(keys)
       THEN Return(1) /\ UNCHANGED <<phase_call, deviations>>
       ELSE IF ledger.current_phase = "research" \/ ~ ledger.research_output
       THEN FALSE
       ELSE /\ cli_pc' = "after_research"
            /\ exit_code' = -1
            /\ UNCHANGED <<phase_call, synth_vars, synthesis_output,
                           completed_deliverables>>

\* cmd_resume entering _run_research
CmdResumeResearch(keys) ==
    /\ UNCHANGED <<pdf_vars, client_vars>>
    /\ Enter("resume", NoArgs, keys)
    /\ ledger.exists /\ _check_api_keys(keys)
    /\ ledger.current_phase = "research" \/ ~ ledger.research_output
    /\ ledger' = start_phase(ledger, "research")
    /\ phase_call' = PhaseCall("start_phase", "research", ledger)
    /\ cli_pc' = "research"
    /\ exit_code' = -1
    /\ UNCHANGED <<md_files, synth_vars, synthesis_output, completed_deliverables>>

\* _run_research: the research is done, saved, and the phase completed
ResearchCompletes ==
    /\ UNCHANGED <<pdf_vars, client_vars, gen_result>>
    /\ cli_pc = "research"
    /\ ledger' = complete_phase(save_research_output(ledger), "research")
    /\ phase_call' = PhaseCall("complete_phase", "research", ledger)
    /\ cli_pc' = "after_research"
    /\ UNCHANGED <<cli_cmd, cli_args, commands, exit_code, md_files,
                   synthesis_output, completed_deliverables, at_start, synth_vars>>

\* the exception passes the phase boundary unrecorded
PhaseRaises_unrecorded ==
    /\ UNCHANGED <<pdf_vars, client_vars, gen_result>>
    /\ cli_pc \in Phases
    /\ deviations < DeviationBudget
    /\ deviations' = deviations + 1
    /\ Return(1)
    /\ UNCHANGED <<cli_cmd, cli_args, commands, ledger, md_files, phase_call,
                   at_start>>

\* an exception inside the try of _run_research / _run_synthesis /
\* _run_generation: fail_phase, re-raise, and the handler returns 1
PhaseRaises ==
    /\ UNCHANGED <<pdf_vars, client_vars, gen_result>>
    /\ cli_pc \in Phases
    /\ deviations < DeviationBudget
    /\ deviations' = deviations + 1
    /\ ledger' = fail_phase(ledger, cli_pc)
    /\ phase_call' = PhaseCall("fail_phase", cli_pc, ledger)
    /\ Return(1)
    /\ UNCHANGED <<cli_cmd, cli_args, commands, md_files, at_start>>

\* cmd_status: 1 without a state file, else the status is printed
CmdStatus(keys) ==
    /\ UNCHANGED <<pdf_vars, client_vars>>
    /\ Enter("status", NoArgs, keys)
    /\ Return(IF ledger.exists THEN 0 ELSE 1)
    /\ UNCHANGED <<ledger, md_files, phase_call, deviations>>

\* cmd_reset: 1 without an output directory, 0 when the operator declines,
\* else tracker.reset and 0
CmdReset(keep_research, confirmed, keys) ==
    /\ UNCHANGED <<pdf_vars, client_vars>>
    /\ Enter("reset", [NoArgs EXCEPT !.keep_research = keep_research], keys)
    /\ IF ~ ledger.exists
       THEN Return(1) /\ UNCHANGED <<ledger, md_files>>
       ELSE IF ~ confirmed
       THEN Return(0) /\ UNCHANGED <<ledger, md_files>>
       ELSE /\ ledger' = reset(ProgressTracker(ledger), keep_research)
            /\ md_files' = EmptyDict
            /\ Return(0)
    /\ UNCHANGED <<phase_call, deviations>>

\* cmd_resume: all_markdown_done
all_markdown_done(completed) == \A d \in MarkdownDeliverables : d \in completed

\* cmd_resume: final_done
final_done(completed) == \A d \in final_deliverables : d \in completed

\* whether the command enters _run_synthesis
EntersSynthesis ==
    IF cli_cmd = "run" THEN ~ cli_args.skip_synthesis
    ELSE ~ all_markdown_done(get_completed_deliverables(ledger))

\* _load_synthesis_from_files
_load_synthesis_from_files(files) ==
    [present |-> TRUE,
     deliverables |-> [d \in (DOMAIN files) \cap MarkdownDeliverables |-> files[d]]]

\* _run_synthesis up to the first iteration of synthesize
RunSynthesisStart ==
    /\ UNCHANGED <<pdf_vars, client_vars, gen_result>>
    /\ cli_pc = "after_research"
    /\ EntersSynthesis
    /\ completed_deliverables' =
          IF cli_cmd = "resume" THEN get_completed_deliverables(ledger) ELSE {}
    /\ ledger' = start_phase(ledger, "synthesis")
    /\ phase_call' = PhaseCall("start_phase", "synthesis", ledger)
    /\ cli_pc' = "synthesis"
    /\ synthesize_enter(<<>>)
    /\ UNCHANGED <<cli_cmd, cli_args, commands, exit_code, md_files,
                   synthesis_output, at_start>>

\* the synthesis phase is not entered
SynthesisSkipped ==
    /\ UNCHANGED <<pdf_vars, client_vars, gen_result>>
    /\ cli_pc = "after_research"
    /\ ~ EntersSynthesis
    /\ completed_deliverables' =
          IF cli_cmd = "resume" THEN get_completed_deliverables(ledger) ELSE {}
    /\ synthesis_output' =
          IF cli_cmd = "resume" THEN _load_synthesis_from_files(md_files) ELSE NoOutput
    /\ cli_pc' = "after_synthesis"
    /\ UNCHANGED <<cli_cmd, cli_args, commands, exit_code, ledger, md_files,
                   phase_call, at_start, synth_vars>>

\* _run_synthesis after synthesize has returned: save_deliverables, one
\* complete_deliverable per saved file, complete_phase
RunSynthesisFinish ==
    /\ UNCHANGED <<pdf_vars, client_vars, gen_result>>
    /\ cli_pc = "synthesis"
    /\ synth_pc = "returned"
    /\ LET file_paths == NonEmpty(generated_content)
       IN  /\ md_files' = DictUpdate(md_files,
                                     [d \in file_paths |-> generated_content[d]])
           /\ ledger' = complete_phase(complete_deliverable(ledger, file_paths),
                                       "synthesis")
    /\ phase_call' = PhaseCall("complete_phase", "synthesis", ledger)
    /\ synthesis_output' = [present |-> TRUE, deliverables |-> generated_content]
    /\ cli_pc' = "after_synthesis"
    /\ UNCHANGED <<cli_cmd, cli_args, commands, exit_code,
                   completed_deliverables, at_start, synth_vars>>

\* whether the command enters _run_generation
EntersGeneration ==
    IF cli_cmd = "run"
    THEN ~ cli_args.skip_generation /\ synthesis_output.present
    ELSE ~ final_done(completed_deliverables) /\ synthesis_output.present

\* _run_generation up to generate_all
RunGenerationStart ==
    /\ UNCHANGED <<pdf_vars, client_vars, gen_result>>
    /\ cli_pc = "after_synthesis"
    /\ EntersGeneration
    /\ ledger' = start_phase(ledger, "generation")
    /\ phase_call' = PhaseCall("start_phase", "generation", ledger)
    /\ cli_pc' = "generation"
    /\ UNCHANGED <<cli_cmd, cli_args, commands, exit_code, md_files,
                   synthesis_output, completed_deliverables, at_start, synth_vars>>

\* _run_generation after start_phase: generate_all, with the generators of
\* `failing` raising; the files whose name is a deliverable's are completed,
\* the phase too, and the command returns 0; an exception leaving
\* generate_all fails the phase and the command returns 1
RunGenerationFinish ==
    /\ UNCHANGED <<pdf_vars, client_vars>>
    /\ cli_pc = "generation"
    /\ \E failing \in SUBSET Generators :
         /\ deviations + Cardinality(failing) <= DeviationBudget
         /\ deviations' = deviations + Cardinality(failing)
         /\ LET result == generate_all(synthesis_output, failing)
                saved == result.generated_files \cap MarkdownDeliverables
                named == result.generated_files \cap DOMAIN DELIVERABLES
            IN  /\ gen_result' =
                      [present |-> TRUE, failing |-> failing,
                       synthesis |-> NonEmpty(synthesis_output.deliverables),
                       result |-> result]
                /\ md_files' = DictUpdate(md_files,
                      [d \in saved |-> WithMetadata(synthesis_output.deliverables[d])])
                /\ IF result.raises
                   THEN /\ ledger' = fail_phase(ledger, "generation")
                        /\ phase_call' = PhaseCall("fail_phase", "generation", ledger)
                        /\ Return(1)
                   ELSE /\ ledger' = complete_phase(
                               complete_deliverable(ledger, named), "generation")
                        /\ phase_call' = PhaseCall("complete_phase", "generation", ledger)
                        /\ Return(0)
    /\ UNCHANGED <<cli_cmd, cli_args, commands, at_start>>

\* the generation phase is not entered and the command returns 0
GenerationSkipped ==
    /\ UNCHANGED <<pdf_vars, client_vars, gen_result>>
    /\ cli_pc = "after_synthesis"
    /\ ~ EntersGeneration
    /\ Return(0)
    /\ UNCHANGED <<cli_cmd, cli_args, commands, ledger, md_files, phase_call,
                   at_start, deviations>>

\* KeyboardInterrupt inside the try of the command: the handler returns 130
Interrupt ==
    /\ UNCHANGED <<pdf_vars, client_vars, gen_result>>
    /\ cli_pc # "idle"
    /\ Return(130)
    /\ UNCHANGED <<cli_cmd, cli_args, commands, ledger, md_files, phase_call,
                   at_start, deviations>>

\* KeyboardInterrupt in _run_synthesis between the last complete_deliverable
\* and complete_phase: the files are saved and recorded, the phase is not
\* completed, and the handler returns 130
InterruptBeforeCompletePhase ==
    /\ UNCHANGED <<pdf_vars, client_vars, gen_result>>
    /\ cli_pc = "synthesis"
    /\ synth_pc = "returned"
    /\ LET file_paths == NonEmpty(generated_content)
       IN  /\ md_files' = DictUpdate(md_files,
                                     [d \in file_paths |-> generated_content[d]])
           /\ ledger' = complete_deliverable(ledger, file_paths)
    /\ Return(130)
    /\ UNCHANGED <<cli_cmd, cli_args, commands, phase_call, at_start, deviations>>

(***************************************************************************)
(* The retry loop of the provider clients                                  *)
(***************************************************************************)
Min(a, b) == IF a < b THEN a ELSE b

\* what the provider does at each attempt of one call: TRUE = it answers;
\* what it would do after its first answer is never asked, and left TRUE
Outcomes ==
    {o \in [1..max_retries -> BOOLEAN] :
        \A i, j \in 1..max_retries : (i < j /\ o[i]) => o[j]}

retry_follows_always(attempt) == TRUE

\* except branch, `if attempt < max_retries - 1`: a further attempt follows
retry_follows(attempt) == attempt < max_retries - 1

\* delay = min(delay * backoff, max_delay)
next_delay(delay) == Min(delay * backoff_multiplier, max_delay)

\* `for attempt in range(max_retries)` from `attempt` on, with the current
\* delay and the sleeps made so far; the loop is the same in both clients
RECURSIVE retry_from(_, _, _, _)
retry_from(attempt, delay, outcomes, sleeps) ==
    IF attempt >= max_retries
    THEN [ok |-> FALSE, attempts |-> attempt, sleeps |-> sleeps,
          outcomes |-> outcomes]
    ELSE IF outcomes[attempt + 1]
    THEN [ok |-> TRUE, attempts |-> attempt + 1, sleeps |-> sleeps,
          outcomes |-> outcomes]
    ELSE IF retry_follows(attempt)
    THEN retry_from(attempt + 1, next_delay(delay), outcomes,
                    Append(sleeps, [after |-> attempt + 1, delay |-> delay]))
    ELSE retry_from(attempt + 1, delay, outcomes, sleeps)

\* the whole loop of one call
retry_loop(outcomes) == retry_from(0, initial_delay, outcomes, <<>>)

\* attempts of a call that raised
FailedAttempts(loop) == IF loop.ok THEN loop.attempts - 1 ELSE loop.attempts

(***************************************************************************)
(* Research configuration: research/orchestrator.py, query_templates.py,   *)
(* model_selector.py, config.py                                            *)
(***************************************************************************)
PhaseOrder ==
    <<"initial_discovery", "company_deep_dive", "industry_analysis",
      "competitive_intelligence", "technology_landscape", "regulatory_context">>

PHASE_QUERIES ==
    [p \in Range(PhaseOrder) |->
      CASE p = "initial_discovery" -> <<"company_overview", "company_details", "recent_news">>
        [] p = "company_deep_dive" -> <<"leadership", "funding_status">>
        [] p = "industry_analysis" ->
             <<"industry_overview", "industry_challenges", "industry_opportunities">>
        [] p = "competitive_intelligence" -> <<"competitors_list", "competitor_ai">>
        [] p = "technology_landscape" ->
             <<"tech_stack", "ai_initiatives", "industry_ai_adoption", "ai_use_cases",
               "ai_tools">>
        [] p = "regulatory_context" ->
             <<"industry_regulations", "ai_regulations", "data_privacy">>]

\* the templates with required_for_quick_mode=True
required_for_quick_mode ==
    {"company_overview", "company_details", "recent_news", "industry_overview",
     "industry_challenges", "competitors_list", "ai_initiatives",
     "industry_ai_adoption", "ai_use_cases"}

\* QueryTemplate.category
category(name) ==
    CASE name \in {"company_overview", "company_details"} -> "company_profile"
      [] name = "leadership" -> "leadership"
      [] name = "funding_status" -> "funding"
      [] name = "recent_news" -> "news"
      [] name \in {"industry_overview", "industry_challenges", "industry_opportunities"} ->
           "industry"
      [] name \in {"competitors_list", "competitor_ai"} -> "competitors"
      [] name = "tech_stack" -> "technology"
      [] name \in {"ai_initiatives", "industry_ai_adoption", "ai_use_cases", "ai_tools"} ->
           "ai_initiatives"
      [] OTHER -> "regulatory"

ResearchModes == {"quick", "comprehensive"}

\* RESEARCH_MODE_MODELS
RESEARCH_MODE_MODELS(mode) ==
    IF mode = "quick" THEN <<"sonar">>
    ELSE <<"sonar", "sonar-pro", "sonar-deep-research">>

\* ModelSelector.CATEGORY_MODELS
CATEGORY_MODELS(cat, mode) ==
    IF mode = "quick" THEN "sonar"
    ELSE CASE cat \in {"company_profile", "industry", "technology", "leadership", "funding"} ->
                "sonar-pro"
           [] cat \in {"competitors", "ai_initiatives"} -> "sonar-deep-research"
           [] cat = "regulatory" -> "sonar-reasoning"
           [] OTHER -> "sonar"

\* ModelSelector.TIER_UPGRADES
TIER_UPGRADES(tier) == tier \in {"private_limited", "startup_stealth"}

\* ModelSelector.select_model
select_model(cat, mode, tier) ==
    LET available == RESEARCH_MODE_MODELS(mode)
        base == IF CATEGORY_MODELS(cat, mode) \in Range(available)
                THEN CATEGORY_MODELS(cat, mode) ELSE available[1]
    IN  IF mode = "comprehensive" /\ TIER_UPGRADES(tier) /\ base = "sonar-pro"
        THEN "sonar-deep-research"
        ELSE base

\* PerplexityClient._estimate_cost with its default token counts, in 1e-4
\* dollars: 500 input and 1000 output tokens at PERPLEXITY_COSTS
_estimate_cost(model) ==
    CASE model = "sonar" -> 15
      [] model = "sonar-pro" -> 165
      [] model = "sonar-deep-research" -> 90
      [] OTHER -> 15

\* search(): cache_ttl_hours
cache_ttl_hours == 24

\* the tiers detect_info_tier can return
Tiers == {"public_large", "public_medium", "private_limited", "startup_stealth"}

\* the tiers the model lets the initial results lead to
DetectedTiers == {"private_limited"}

\* _execute_phase: the queries of a phase under a mode
PhaseQueries(phase, mode) ==
    IF mode = "quick"
    THEN SelectSeq(PHASE_QUERIES[phase], LAMBDA q : q \in required_for_quick_mode)
    ELSE PHASE_QUERIES[phase]

\* research(): whether a phase is executed
PhaseRuns(phase, mode, tier) ==
    CASE phase = "company_deep_dive" ->
           mode = "comprehensive" \/ tier \in {"private_limited", "startup_stealth"}
      [] phase = "regulatory_context" -> mode = "comprehensive"
      [] OTHER -> TRUE

\* research(): the queries of the session, in the order they are executed
RECURSIVE PlanFrom(_, _, _)
PlanFrom(i, mode, tier) ==
    IF i > Len(PhaseOrder) THEN <<>>
    ELSE (IF PhaseRuns(PhaseOrder[i], mode, tier)
          THEN PhaseQueries(PhaseOrder[i], mode) ELSE <<>>)
         \o PlanFrom(i + 1, mode, tier)

Plan(mode, tier) == PlanFrom(1, mode, tier)

(***************************************************************************)
(* PerplexityClient: cache, search, _execute_with_retry                    *)
(***************************************************************************)
\* a top-level key of research_cache.json that is not a cache key
TopKey(name) == [query |-> name, model |-> ""]

\* no research_cache.json
NoCacheFile == <<[key |-> TopKey("ENOENT"), kind |-> "none", error |-> FALSE,
                  timestamp |-> 0, ttl_hours |-> 0]>>

\* _get_cache_key: the query and the parameters that vary
_get_cache_key(name, model) == [query |-> name, model |-> model]

\* position of a key in the cache, 0 if absent
CacheIndex(cache, key) ==
    IF \E i \in 1..Len(cache) : cache[i].key = key
    THEN CHOOSE i \in 1..Len(cache) : cache[i].key = key
    ELSE 0

\* only a result without error is cached
CachePut_successes(cache, entry) ==
    IF entry.error THEN cache
    ELSE IF CacheIndex(cache, entry.key) = 0 THEN Append(cache, entry)
    ELSE [cache EXCEPT ![CacheIndex(cache, entry.key)] = entry]

\* self.cache[cache_key] = CacheEntry(...)
CachePut(cache, entry) ==
    IF CacheIndex(cache, entry.key) = 0 THEN Append(cache, entry)
    ELSE [cache EXCEPT ![CacheIndex(cache, entry.key)] = entry]

\* an entry never expires
_is_cache_valid_always(entry, now) == TRUE

\* _is_cache_valid
_is_cache_valid(entry, now) == now - entry.timestamp < entry.ttl_hours

\* _save_cache: one item per cache entry, keyed by the cache key
_save_cache(cache) ==
    [i \in 1..Len(cache) |->
        [key |-> cache[i].key, kind |-> "entry", error |-> cache[i].error,
         timestamp |-> cache[i].timestamp, ttl_hours |-> cache[i].ttl_hours]]

\* save_research_cache: the top-level keys of the document it writes
save_research_cache(now) ==
    <<[key |-> TopKey("timestamp"), kind |-> "string", error |-> FALSE,
       timestamp |-> now, ttl_hours |-> 0],
      [key |-> TopKey("mode"), kind |-> "string", error |-> FALSE,
       timestamp |-> 0, ttl_hours |-> 0],
      [key |-> TopKey("info_tier"), kind |-> "string", error |-> FALSE,
       timestamp |-> 0, ttl_hours |-> 0],
      [key |-> TopKey("results"), kind |-> "dict", error |-> FALSE,
       timestamp |-> 0, ttl_hours |-> 0]>>

\* the loop of _load_cache over data.items(): an item that is not a cache
\* entry raises on entry["result"], the except ends the loading
RECURSIVE load_from(_, _, _)
load_from(items, i, cache) ==
    IF i > Len(items) THEN cache
    ELSE IF items[i].kind # "entry" THEN cache
    ELSE load_from(items, i + 1,
                   Append(cache, [key |-> items[i].key, error |-> items[i].error,
                                  timestamp |-> items[i].timestamp,
                                  ttl_hours |-> items[i].ttl_hours]))

\* _load_cache
_load_cache(file) == IF file = NoCacheFile THEN <<>> ELSE load_from(file, 1, <<>>)

_execute_with_retry_raising(outcomes, model, cost, count) ==
    LET loop == retry_loop(outcomes)
    IN  [raised |-> ~ loop.ok, error |-> ~ loop.ok, has_results |-> loop.ok,
         cost_estimate |-> IF loop.ok THEN _estimate_cost(model) ELSE 0,
         total_cost |-> IF loop.ok THEN cost + _estimate_cost(model) ELSE cost,
         query_count |-> IF loop.ok THEN count + 1 ELSE count, loop |-> loop]

\* _execute_with_retry: the QueryResult and the counters after the call
_execute_with_retry(outcomes, model, cost, count) ==
    LET loop == retry_loop(outcomes)
    IN  IF loop.ok
        THEN [raised |-> FALSE, error |-> FALSE, has_results |-> TRUE,
              cost_estimate |-> _estimate_cost(model),
              total_cost |-> cost + _estimate_cost(model),
              query_count |-> count + 1, loop |-> loop]
        ELSE [raised |-> FALSE, error |-> TRUE, has_results |-> FALSE,
              cost_estimate |-> 0, total_cost |-> cost, query_count |-> count,
              loop |-> loop]

\* a call that did not answer at its first attempt
Retried(outcomes) == ~ outcomes[1]

NoCallYet ==
    [client |-> "none", cached |-> FALSE, raised |-> FALSE, error |-> FALSE,
     empty |-> TRUE, cost_estimate |-> 0, attempts |-> 0, ok |-> FALSE,
     outcomes |-> [i \in 1..max_retries |-> TRUE],
     sleeps |-> <<>>, cost_before |-> 0, cost_after |-> 0,
     count_before |-> 0, count_after |-> 0]

ClientInit ==
    /\ px_pc = "none"
    /\ sessions = 0
    /\ rs_mode = "quick"
    /\ info_tier = "public_medium"
    /\ rs_idx = 1
    /\ results = EmptyDict
    /\ px_cache = <<>>
    /\ cache_file = NoCacheFile
    /\ px_total_cost = 0
    /\ query_count = 0
    /\ px_calls = <<>>
    /\ obtained = {}
    /\ clock = 0
    /\ retried_calls = 0
    /\ gemini_calls = 0
    /\ aborts = 0
    /\ last_call = NoCallYet

\* what a call looked like from outside
Observed(client, cached, r, loop, cost_before, cost_after, count_before, count_after) ==
    [client |-> client, cached |-> cached, raised |-> r.raised, error |-> r.error,
     outcomes |-> loop.outcomes,
     empty |-> r.empty, cost_estimate |-> r.cost_estimate,
     attempts |-> loop.attempts, ok |-> loop.ok, sleeps |-> loop.sleeps,
     cost_before |-> cost_before, cost_after |-> cost_after,
     count_before |-> count_before, count_after |-> count_after]

\* a loop that was not entered
NoLoop == [ok |-> TRUE, attempts |-> 0, sleeps |-> <<>>,
           outcomes |-> [i \in 1..max_retries |-> TRUE]]

\* the client and the orchestrator of a session are gone
SessionLost ==
    /\ px_pc' = "none"
    /\ rs_idx' = 1
    /\ results' = EmptyDict
    /\ px_cache' = <<>>
    /\ px_calls' = <<>>
    /\ info_tier' = "public_medium"
    /\ last_call' = NoCallYet

\* _run_research: ResearchOrchestrator(mode, cache_dir) with its
\* PerplexityClient, which loads the cache file, and research() entered
ResearchStart(mode) ==
    /\ UNCHANGED <<synth_vars, pdf_vars, cli_vars>>
    /\ px_pc = "none"
    /\ gemini_calls = 0
    /\ sessions < MaxSessions
    /\ sessions' = sessions + 1
    /\ px_pc' = "researching"
    /\ rs_mode' = mode
    /\ info_tier' = "public_medium"
    /\ rs_idx' = 1
    /\ results' = EmptyDict
    /\ px_cache' = _load_cache(cache_file)
    /\ px_total_cost' = 0
    /\ query_count' = 0
    /\ px_calls' = <<>>
    /\ UNCHANGED <<cache_file, obtained, clock, retried_calls, gemini_calls, aborts,
                   last_call>>

\* research(): detect_info_tier after the initial discovery; with no result
\* at all the count heuristic gives startup_stealth
detect_info_tier(res, tiers) ==
    IF \A q \in Range(PHASE_QUERIES["initial_discovery"]) : q \in DOMAIN res => res[q]
    THEN {"startup_stealth"}
    ELSE tiers

\* _execute_phase: one query through PerplexityClient.search, the provider
\* behaving as one of `behaviours` and the initial results leading to one of
\* `tiers`
SearchWith(tiers, behaviours) ==
    /\ UNCHANGED <<synth_vars, pdf_vars, cli_vars>>
    /\ px_pc = "researching"
    /\ rs_idx <= Len(Plan(rs_mode, info_tier))
    /\ LET name == Plan(rs_mode, info_tier)[rs_idx]
           model == select_model(category(name), rs_mode, info_tier)
           key == _get_cache_key(name, model)
           at == CacheIndex(px_cache, key)
           last_initial == rs_idx = Len(PhaseQueries("initial_discovery", rs_mode))
       IN  /\ IF at # 0 /\ _is_cache_valid(px_cache[at], clock)
              THEN /\ results' = DictSet(results, name, px_cache[at].error)
                   /\ last_call' =
                         Observed("perplexity", TRUE,
                                  [raised |-> FALSE, error |-> px_cache[at].error,
                                   empty |-> px_cache[at].error, cost_estimate |-> 0],
                                  NoLoop, px_total_cost, px_total_cost,
                                  query_count, query_count)
                   /\ UNCHANGED <<px_cache, cache_file, px_total_cost, query_count,
                                  px_calls, retried_calls>>
              ELSE \E outcomes \in behaviours :
                     LET r == _execute_with_retry(outcomes, model, px_total_cost,
                                                  query_count)
                     IN  /\ Retried(outcomes) => retried_calls < MaxRetriedCalls
                         /\ retried_calls' = IF Retried(outcomes)
                                             THEN retried_calls + 1 ELSE retried_calls
                         /\ px_total_cost' = r.total_cost
                         /\ query_count' = r.query_count
                         /\ px_calls' = Append(px_calls, key)
                         /\ px_cache' =
                               CachePut(px_cache,
                                        [key |-> key, error |-> r.error,
                                         timestamp |-> clock,
                                         ttl_hours |-> cache_ttl_hours])
                         /\ cache_file' = _save_cache(px_cache')
                         /\ results' = DictSet(results, name, r.error)
                         /\ last_call' =
                               Observed("perplexity", FALSE,
                                        [raised |-> r.raised, error |-> r.error,
                                         empty |-> ~ r.has_results,
                                         cost_estimate |-> r.cost_estimate],
                                        r.loop, px_total_cost, r.total_cost,
                                        query_count, r.query_count)
           /\ IF last_initial
              THEN info_tier' \in detect_info_tier(results', tiers)
              ELSE UNCHANGED info_tier
    /\ rs_idx' = rs_idx + 1
    /\ UNCHANGED <<px_pc, sessions, rs_mode, obtained, clock, gemini_calls, aborts>>

Search == SearchWith(DetectedTiers, Outcomes)

\* the provider answers at the first attempt
Answers == {[i \in 1..max_retries |-> TRUE]}

\* a query of a session whose provider answers, for a company of any tier
SearchAnyTier == SearchWith(Tiers, Answers)

\* the results a session leaves behind, with the time they were fetched
ObtainedBy(cache, res) ==
    {[key |-> cache[i].key, timestamp |-> cache[i].timestamp,
      ttl_hours |-> cache[i].ttl_hours] :
        i \in {j \in 1..Len(cache) : /\ ~ cache[j].error
                                     /\ cache[j].key.query \in DOMAIN res}}

\* _run_research after research() has returned: save_research_cache writes
\* research_cache.json in the directory the client keeps its cache in
ResearchFinish ==
    /\ UNCHANGED <<synth_vars, pdf_vars, cli_vars>>
    /\ px_pc = "researching"
    /\ rs_idx > Len(Plan(rs_mode, info_tier))
    /\ cache_file' = save_research_cache(clock)
    /\ obtained' = obtained \cup ObtainedBy(px_cache, results)
    /\ SessionLost
    /\ UNCHANGED <<sessions, rs_mode, px_total_cost, query_count, clock,
                   retried_calls, gemini_calls, aborts>>

\* the process ends inside research(): an interrupt, or an exception
ResearchAbort ==
    /\ UNCHANGED <<synth_vars, pdf_vars, cli_vars>>
    /\ px_pc = "researching"
    /\ aborts < MaxAborts
    /\ aborts' = aborts + 1
    /\ SessionLost
    /\ UNCHANGED <<sessions, rs_mode, cache_file, px_total_cost, query_count,
                   obtained, clock, retried_calls, gemini_calls>>

\* a time-to-live passes between two sessions
Tick ==
    /\ UNCHANGED <<synth_vars, pdf_vars, cli_vars>>
    /\ px_pc = "none"
    /\ clock + cache_ttl_hours <= MaxClock
    /\ clock' = clock + cache_ttl_hours
    /\ UNCHANGED <<px_pc, sessions, rs_mode, info_tier, rs_idx, results, px_cache,
                   cache_file, px_total_cost, query_count, px_calls, obtained,
                   retried_calls, gemini_calls, aborts, last_call>>

\* GeminiClient.generate called directly: the retry loop and the counters
GeminiGenerate ==
    /\ UNCHANGED <<pdf_vars, cli_vars>>
    /\ px_pc = "none"
    /\ sessions = 0
    /\ gemini_calls < MaxGeminiCalls
    /\ gemini_calls' = gemini_calls + 1
    /\ \E outcomes \in Outcomes, text \in Texts :
         LET loop == retry_loop(outcomes)
             result == generate(FailedAttempts(loop), text)
             counted == IF result.error = "" THEN request_count + 1 ELSE request_count
         IN  /\ Retried(outcomes) => retried_calls < MaxRetriedCalls
             /\ ~ loop.ok => text = ""
             /\ retried_calls' = IF Retried(outcomes)
                                 THEN retried_calls + 1 ELSE retried_calls
             /\ total_cost' = total_cost + result.cost_estimate
             /\ request_count' = counted
             /\ last_call' =
                   Observed("gemini", FALSE,
                            [raised |-> FALSE, error |-> result.error # "",
                             empty |-> result.content = "",
                             cost_estimate |-> result.cost_estimate],
                            loop, total_cost, total_cost', request_count, counted)
    /\ UNCHANGED <<synth_pc, target_deliverables, work_idx, generated_content,
                   errors, generated_deliverables, provider_calls, deviations>>
    /\ UNCHANGED <<px_pc, sessions, rs_mode, info_tier, rs_idx, results, px_cache,
                   cache_file, px_total_cost, query_count, px_calls, obtained, clock,
                   aborts>>

(***************************************************************************)
(* Specification of synthesize called on a fresh orchestrator              *)
(***************************************************************************)
\* the `deliverables` arguments tried; <<>> stands for None
TargetLists ==
    { <<>>,
      <<"01_tech_inventory", "02_pain_points", "13_glossary">>,
      <<"13_glossary", "03_mermaid_diagrams">>,
      <<"04_maturity_assessment", "14_use_case_library">>,
      <<"02_pain_points", "01_tech_inventory", "04_maturity_assessment",
        "01_tech_inventory">>,
      <<"13_glossary", "statement_of_work", "00_unknown">> }

\* no synthesize call made yet, on an orchestrator as constructed
SynthInit ==
    /\ synth_pc = "idle"
    /\ target_deliverables = <<>>
    /\ work_idx = 1
    /\ FreshOrchestrator
    /\ deviations = 0

Init ==
    /\ SynthInit
    /\ PdfInit
    /\ CliInit
    /\ ClientInit

Next ==
    \/ \E deliverables \in TargetLists : Synthesize(deliverables)
    \/ DependenciesNotMet
    \/ GenerateDeliverable
    \/ SynthesizeReturn

Spec == Init /\ [][Next]_vars

(***************************************************************************)
(* Properties of synthesize                                                *)
(***************************************************************************)
Last(s) == s[Len(s)]

\* the prerequisites of d other than the ALL_MARKDOWN sentinel
NonSentinelDeps(d) == Range(Dependencies(d)) \ {ALL_MARKDOWN}

\* the ids whose iteration of synthesize is over
Processed ==
    IF synth_pc = "idle" THEN {}
    ELSE {WorkList(target_deliverables)[i] : i \in 1..(work_idx - 1)}

\* the ids the provider was invoked for, and those it failed for
Invoked == {provider_calls[i].id : i \in 1..Len(provider_calls)}
ProviderFailed == {provider_calls[i].id : i \in {j \in 1..Len(provider_calls) : ~ provider_calls[j].ok}}

ErrorsOf(d) == {i \in 1..Len(errors) : errors[i].deliverable_id = d}
HasError(d, e) == \E i \in ErrorsOf(d) : errors[i].error = e

\* C1: the provider is invoked for D only while every non-sentinel
\* prerequisite of D is in the completed set; a D with a prerequisite that is
\* not completed gets the error 'Dependencies not met', no provider call, and
\* never enters the completed set.
C1_DependencyOrdering ==
    /\ [][provider_calls' # provider_calls =>
            NonSentinelDeps(Last(provider_calls').id) \subseteq DOMAIN generated_content]_vars
    /\ [](\A d \in Processed :
            (\E p \in NonSentinelDeps(d) : p \notin DOMAIN generated_content) =>
                /\ HasError(d, "Dependencies not met")
                /\ d \notin Invoked
                /\ d \notin DOMAIN generated_content)

\* C1 witness: a run that invoked the provider for a deliverable with
\* prerequisites and refused another one for unmet dependencies
C1_Witness ==
    /\ synth_pc = "returned"
    /\ \E d \in Invoked : NonSentinelDeps(d) # {} /\ d \in DOMAIN generated_content
    /\ \E d \in Processed : HasError(d, "Dependencies not met") /\ d \notin Invoked

\* no target is a prerequisite of another target
Independent(targets) ==
    \A a \in Range(targets), b \in Range(targets) : a \notin Range(Dependencies(b))

\* C4 as stated: N targets with no dependency relation among them, the
\* provider failing for exactly k of them: the other N-k are completed and
\* exactly k errors are recorded.
C4_Original ==
    (synth_pc = "returned" /\ Independent(target_deliverables)) =>
        LET N == Cardinality(Range(target_deliverables))
            k == Cardinality(ProviderFailed)
        IN  /\ Cardinality(DOMAIN generated_content) = N - k
            /\ Len(errors) = k

\* C4 amended: N targets that have no prerequisites at all, the provider
\* failing for exactly k of them: the other N-k are completed and exactly k
\* errors are recorded.
C4_Isolation ==
    (/\ synth_pc = "returned"
     /\ \A d \in Range(target_deliverables) :
            d \in MarkdownDeliverables /\ Dependencies(d) = <<>>) =>
        LET N == Cardinality(Range(target_deliverables))
            k == Cardinality(ProviderFailed)
        IN  /\ Cardinality(DOMAIN generated_content) = N - k
            /\ DOMAIN generated_content = Range(target_deliverables) \ ProviderFailed
            /\ Len(errors) = k
            /\ \A d \in ProviderFailed : Cardinality(ErrorsOf(d)) = 1

\* C4 witness: three targets without prerequisites, one provider failure
C4_Witness ==
    /\ synth_pc = "returned"
    /\ Range(target_deliverables) = {"01_tech_inventory", "02_pain_points", "13_glossary"}
    /\ Cardinality(ProviderFailed) = 1
    /\ Cardinality(DOMAIN generated_content) = 2

\* C5: when every provider call fails, synthesize returns with an empty
\* completed set and one error per requested markdown deliverable: the
\* provider's error for those without prerequisites, 'Dependencies not met'
\* and no provider call for the others.
C5_TotalFailure ==
    (synth_pc = "returned" /\ \A i \in 1..Len(provider_calls) : ~ provider_calls[i].ok) =>
        /\ generated_content = EmptyDict
        /\ Len(errors) = Cardinality(Range(target_deliverables) \cap MarkdownDeliverables)
        /\ \A d \in Range(target_deliverables) \cap MarkdownDeliverables :
              /\ Cardinality(ErrorsOf(d)) = 1
              /\ IF Dependencies(d) = <<>>
                 THEN HasError(d, "provider error") /\ d \in Invoked
                 ELSE HasError(d, "Dependencies not met") /\ d \notin Invoked

\* C5 witness: all markdown deliverables requested, the three calls made all
\* failed
C5_Witness ==
    /\ synth_pc = "returned"
    /\ Len(provider_calls) = 3
    /\ \A i \in 1..Len(provider_calls) : ~ provider_calls[i].ok
    /\ Len(errors) = 15

(***************************************************************************)
(* Specification of the PDF tool with its progress ledger                  *)
(***************************************************************************)
PdfNext ==
    \/ Construct
    \/ ClearProgress
    \/ SkipCompleted
    \/ ChunkSucceeds
    \/ ChunkFails
    \/ OpenTemp
    \/ WriteTemp
    \/ RenameTemp
    \/ Crash
    \/ Exit
    \/ Corrupt

SpecPdf == Init /\ [][PdfNext]_vars

(***************************************************************************)
(* Properties of the PDF tool's ProgressTracker                            *)
(***************************************************************************)
Mutators == {"mark_chunk_completed", "mark_chunk_failed", "clear_progress"}

\* C6: at every point during and after a mutator, also after a crash, the
\* ledger file holds either the complete content it had when the mutator was
\* called or the complete new document, never a partial one.
C6_AtomicLedger ==
    pdf_files[ProgressFile] \in {pre_file, post_doc}

\* C6 witness: the process died while the temporary file was half written,
\* with an older ledger on disk
C6_Witness ==
    /\ pdf_pc = "dead"
    /\ pdf_op \in Mutators
    /\ pdf_files[TempFile] # NoFile
    /\ Len(pdf_files[TempFile]) \in 1..(Len(post_doc) - 1)
    /\ IsDocument(pre_file)
    /\ pdf_files[ProgressFile] = pre_file

\* C7: once a mutator has returned, the ledger file holds the in-memory
\* state, and loading it gives that state back.
C7_DurableSave ==
    (pdf_pc = "idle" /\ pdf_op \in Mutators) =>
        /\ pdf_files[ProgressFile] = Dump(pdf_state)
        /\ _load_state(pdf_files) =
              [raised |-> FALSE, found |-> "parsed", state |-> pdf_state]

\* C7 witness: mark_chunk_failed has returned after an earlier
\* mark_chunk_completed
C7_Witness ==
    /\ pdf_pc = "idle"
    /\ pdf_op = "mark_chunk_failed"
    /\ pdf_state.completed_chunks # <<>>
    /\ pdf_state.failed_chunks # <<>>

\* C8: constructing the tracker over a ledger file that does not parse does
\* not raise and gives a state with no completed chunk and no failed chunk.
C8_CorruptLedger ==
    (pdf_op = "construct" /\ load_outcome = "corrupt" /\ pdf_pc # "dead") =>
        /\ pdf_pc = "idle"
        /\ \A c \in ChunkIds : ~ is_chunk_completed(pdf_state, c)
        /\ pdf_state.failed_chunks = <<>>

\* C8 witness: a tracker constructed over a truncated ledger
C8_Witness ==
    /\ pdf_pc = "idle"
    /\ pdf_op = "construct"
    /\ load_outcome = "corrupt"
    /\ Len(pdf_files[ProgressFile]) > 2
    /\ ~ IsDocument(pdf_files[ProgressFile])

(***************************************************************************)
(* Specification of the CLI: sequences of run / resume commands            *)
(***************************************************************************)
CliNext ==
    \/ \E args \in RunArgs, keys \in BOOLEAN : CmdRun(args, keys)
    \/ \E keys \in BOOLEAN : CmdResume(keys)
    \/ \E keys \in BOOLEAN : CmdResumeResearch(keys)
    \/ \E keys \in BOOLEAN : CmdStatus(keys)
    \/ \E keep_research, confirmed, keys \in BOOLEAN :
          CmdReset(keep_research, confirmed, keys)
    \/ ResearchCompletes
    \/ PhaseRaises
    \/ RunSynthesisStart
    \/ SynthesisSkipped
    \/ DependenciesNotMet
    \/ GenerateDeliverable
    \/ SynthesizeReturn
    \/ RunSynthesisFinish
    \/ RunGenerationStart
    \/ RunGenerationFinish
    \/ GenerationSkipped
    \/ Interrupt
    \/ InterruptBeforeCompletePhase

SpecCLI == Init /\ [][CliNext]_vars

(***************************************************************************)
(* Properties of the CLI                                                   *)
(***************************************************************************)
\* the text of a markdown file without its metadata header
StripMetadata(content) == IF content = "meta+md" THEN "md" ELSE content

\* the markdown deliverables the ledger had completed when the command began
CompletedAtStart == at_start.completed \cap MarkdownDeliverables

\* C2: a resume of a pipeline that halted with some markdown deliverables
\* completed does not call the provider again for any of them, leaves their
\* files as they were, and keeps them completed in the ledger.
C2_IdempotentResume ==
    cli_cmd = "resume" =>
        \A d \in CompletedAtStart :
            /\ d \notin Invoked
            /\ d \in DOMAIN md_files
            /\ d \in DOMAIN at_start.files
            /\ StripMetadata(md_files[d]) = StripMetadata(at_start.files[d])
            /\ ledger.deliverables[d] = "completed"

\* C3: while the synthesis phase is generating, every deliverable generated
\* so far is already on disk and completed in the ledger, so that an
\* interrupt after n generated deliverables leaves those n completed.
C3_PersistedBeforeNext ==
    (cli_pc = "synthesis" /\ synth_pc = "running") =>
        \A d \in NonEmpty(generated_content) :
            /\ d \in DOMAIN md_files
            /\ ledger.deliverables[d] = "completed"

\* C9: the CLI calls start_phase(p) only while p is pending or in_progress,
\* and complete_phase(p) / fail_phase(p) only while p is in_progress.
C9_PhaseTransitions ==
    /\ phase_call.op = "start_phase" => phase_call.prior \in {"pending", "in_progress"}
    /\ phase_call.op \in {"complete_phase", "fail_phase"} =>
          phase_call.prior = "in_progress"

\* C10: once the synthesis phase is over, every deliverable with an error
\* record is failed in the ledger, and the markdown deliverables the phase
\* completed are ones it generated.
C10_FailuresRecorded ==
    (cli_pc = "after_synthesis" /\ synth_pc = "returned") =>
        /\ \A i \in 1..Len(errors) :
              ledger.deliverables[errors[i].deliverable_id] = "failed"
        /\ (get_completed_deliverables(ledger) \cap MarkdownDeliverables)
              \subseteq (NonEmpty(generated_content) \cup CompletedAtStart)

(***************************************************************************)
(* Specification of the provider clients: research sessions over one       *)
(* output directory, and direct generate calls                             *)
(***************************************************************************)
ClientNext ==
    \/ \E mode \in ResearchModes : ResearchStart(mode)
    \/ Search
    \/ ResearchFinish
    \/ ResearchAbort
    \/ Tick
    \/ GeminiGenerate

SpecClients == Init /\ [][ClientNext]_vars

(***************************************************************************)
(* Specification of research sessions on companies of every information    *)
(* tier, with a provider that answers                                      *)
(***************************************************************************)
TierNext ==
    \/ \E mode \in ResearchModes : ResearchStart(mode)
    \/ SearchAnyTier
    \/ ResearchFinish

SpecTiers == Init /\ [][TierNext]_vars

(***************************************************************************)
(* Properties of the provider clients                                      *)
(***************************************************************************)
\* the last call went to the provider
Called == last_call.client # "none" /\ ~ last_call.cached

\* C11: a research session issues no provider call for a query whose result
\* a finished earlier session obtained and whose TTL has not elapsed.
C11_CacheReused ==
    \A i \in 1..Len(px_calls) :
        ~ \E o \in obtained :
            /\ o.key = px_calls[i]
            /\ clock - o.timestamp < o.ttl_hours

C13_FailureReturned ==
    (Called /\ ~ last_call.ok) =>
        /\ ~ last_call.raised
        /\ last_call.error
        /\ last_call.empty
        /\ last_call.cost_estimate = 0
        /\ last_call.cost_after = last_call.cost_before
        /\ last_call.count_after = last_call.count_before
        /\ last_call.client = "perplexity" =>
              (px_total_cost = last_call.cost_before /\ query_count = last_call.count_before)
        /\ last_call.client = "gemini" =>
              (total_cost = last_call.cost_before /\ request_count = last_call.count_before)

\* C13 witness: a research query failed after an earlier one had succeeded,
\* and the session goes on
C13_Witness ==
    /\ Called
    /\ last_call.client = "perplexity"
    /\ ~ last_call.ok
    /\ px_pc = "researching"
    /\ last_call.count_before > 0

\* a step that is one client call
CallStep == rs_idx' = rs_idx + 1 \/ gemini_calls' = gemini_calls + 1

\* C14: the total_cost of a client never decreases from call to call, and a
\* call that fails, or that the cache answers, leaves it as it was.
C14_CostMonotonic ==
    [][/\ total_cost' >= total_cost
       /\ (px_pc = "researching" /\ px_pc' = "researching") =>
             px_total_cost' >= px_total_cost
       /\ (CallStep /\ (last_call'.error \/ last_call'.cached)) =>
             (total_cost' = total_cost /\ px_total_cost' = px_total_cost)]_vars

\* C14 witness: a generate call has failed on a client that had a cost
C14_Witness ==
    /\ last_call.client = "gemini"
    /\ last_call.error
    /\ last_call.cost_before > 0
    /\ total_cost = last_call.cost_before

(***************************************************************************)
(* Further properties of synthesize                                        *)
(***************************************************************************)
\* the provider calls made for d
CallsOf(d) == {i \in 1..Len(provider_calls) : provider_calls[i].id = d}

\* C15: within one synthesize invocation generation is attempted at most
\* once per deliverable id, even when the target list holds the id more than
\* once: at most one provider call and at most one recorded error per id, and
\* the iterations are sequential, so the id in flight is the only one.
C15_AtMostOnce ==
    /\ \A d \in DOMAIN DELIVERABLES :
          /\ Cardinality(CallsOf(d)) <= 1
          /\ Cardinality(ErrorsOf(d)) <= 1
    /\ (synth_pc = "running" /\ work_idx <= Len(WorkList(target_deliverables))) =>
          \A i \in 1..(work_idx - 1) :
              WorkList(target_deliverables)[i] # CurrentDeliverable

\* C15 witness: synthesize returned after a target list naming
\* 01_tech_inventory twice, with that id generated
C15_Witness ==
    /\ synth_pc = "returned"
    /\ cli_pc = "idle"
    /\ \E i, j \in 1..Len(target_deliverables) :
          /\ i # j
          /\ target_deliverables[i] = "01_tech_inventory"
          /\ target_deliverables[j] = "01_tech_inventory"
    /\ Cardinality(CallsOf("01_tech_inventory")) = 1

(***************************************************************************)
(* Further properties of the command-line sessions                         *)
(***************************************************************************)
\* the step in which generate_all returns inside _run_generation
GenerationStep == cli_pc = "generation" /\ phase_call'.op = "complete_phase"

\* the final documents the step records as generated
NewlyRendered ==
    (get_completed_deliverables(ledger') \ get_completed_deliverables(ledger))
        \cap final_deliverables

\* the markdown deliverables synthesize has a content or an error for
Settled ==
    NonEmpty(synthesis_output.deliverables) \cup {errors[i].deliverable_id : i \in 1..Len(errors)}

\* C16: a final document is rendered only when its prerequisites are
\* satisfied: statement_of_work only if 05_roadmap, 06_quick_wins and
\* 09_roi_calculator are in the completed synthesis set, and the documents
\* depending on ALL_MARKDOWN only once every markdown deliverable has
\* completed or failed.
C16_PrerequisitesMet ==
    [][GenerationStep =>
          \A f \in NewlyRendered :
              /\ NonSentinelDeps(f) \subseteq NonEmpty(synthesis_output.deliverables)
              /\ ALL_MARKDOWN \in Range(Dependencies(f)) =>
                    MarkdownDeliverables \subseteq
                        Settled \cup get_completed_deliverables(ledger)]_vars

\* a command leaves the phase it is in by returning 1
LeavesPhaseWithError == cli_pc \in Phases /\ cli_pc' = "idle" /\ exit_code' = 1

\* C17: an exception other than an operator interrupt raised inside a phase
\* of run/resume is caught at the phase's boundary: fail_phase is called once
\* for that phase, which was in progress and becomes failed, no other phase
\* changes status, the command is over and its exit code is 1; a phase
\* becomes failed in no other step.
C17_PhaseFailure ==
    [][/\ LeavesPhaseWithError =>
            /\ phase_call' = [op |-> "fail_phase", phase |-> cli_pc,
                              prior |-> "in_progress"]
            /\ ledger'.phases[cli_pc] = "failed"
            /\ \A p \in Phases \ {cli_pc} : ledger'.phases[p] = ledger.phases[p]
       /\ (\E p \in Phases : ledger'.phases[p] = "failed" /\ ledger.phases[p] # "failed") =>
            LeavesPhaseWithError]_vars

\* C17 witness: a command returned 1 out of the synthesis phase, which the
\* ledger shows failed, with generation never started
C17_Witness ==
    /\ cli_pc = "idle"
    /\ exit_code = 1
    /\ phase_call = [op |-> "fail_phase", phase |-> "synthesis", prior |-> "in_progress"]
    /\ ledger.phases["synthesis"] = "failed"
    /\ ledger.phases["generation"] = "pending"

\* the handler of KeyboardInterrupt returns out of a command
InterruptStep == cli_pc # "idle" /\ cli_pc' = "idle" /\ exit_code' = 130

\* C18: an operator interrupt during a phase of run or resume yields exit
\* code 130 without a fail_phase call, so the ledger still shows the phase
\* in progress, and a later resume re-enters it: a resume that returns 0
\* leaves no phase in progress.
C18_InterruptResumable ==
    /\ [][InterruptStep =>
            /\ phase_call' = phase_call
            /\ ledger'.phases = ledger.phases
            /\ cli_pc \in Phases => ledger'.phases[cli_pc] = "in_progress"]_vars
    /\ []((cli_cmd = "resume" /\ cli_pc = "idle" /\ exit_code = 0) =>
            \A p \in Phases : ledger.phases[p] # "in_progress")

\* C19: run returns 0 only on full success: when run without skip flags
\* returns 0, every markdown deliverable and every final document is recorded
\* completed.
C19_ZeroMeansFullSuccess ==
    (cli_cmd = "run" /\ cli_args = NoArgs /\ cli_pc = "idle" /\ exit_code = 0) =>
        \A d \in MarkdownDeliverables \cup final_deliverables :
            ledger.deliverables[d] = "completed"

\* a command is entered without something it requires: a credential (run
\* outside dry-run, resume) or the persisted state (resume, status, reset)
ConfigurationError ==
    /\ cli_pc = "idle"
    /\ commands' = commands + 1
    /\ \/ cli_cmd' = "run" /\ ~ cli_args'.dry_run /\ ~ at_start'.keys
       \/ cli_cmd' = "resume" /\ ~ at_start'.keys
       \/ cli_cmd' \in {"resume", "status", "reset"} /\ ~ ledger.exists

DryRunStep ==
    cli_pc = "idle" /\ commands' = commands + 1 /\ cli_cmd' = "run" /\ cli_args'.dry_run

\* C21: `run --dry-run` returns 0 whether or not the credentials are set,
\* without constructing a tracker (the ledger is neither created nor
\* changed), without writing a file and without a provider call.
C21_DryRun ==
    [][DryRunStep =>
          /\ cli_pc' = "idle"
          /\ exit_code' = 0
          /\ ledger' = ledger
          /\ md_files' = md_files
          /\ phase_call' = phase_call
          /\ provider_calls' = <<>>
          /\ px_calls' = px_calls]_vars

\* C21 witness: a dry run without credentials on a company never run
\* returned 0 and left no ledger
C21_Witness ==
    /\ cli_cmd = "run"
    /\ cli_args.dry_run
    /\ cli_pc = "idle"
    /\ exit_code = 0
    /\ ~ at_start.keys
    /\ ~ ledger.exists

\* the calls generate_all has to make for the synthesis it was given
DueCalls ==
    {g \in Generators :
        g = "mermaid_rendering" => "03_mermaid_diagrams" \in gen_result.synthesis}

\* C22: in generate_all an exception raised by a generator call is recorded
\* as an error and prevents none of the other calls: every due call is
\* attempted once, the errors are those of the calls that raised, the calls
\* that did not raise have their files in the result, success is true
\* exactly when no error was recorded, and generate_all does not raise.
C22_GeneratorsIsolated ==
    gen_result.present =>
        LET r == gen_result.result
            raised == gen_result.failing \cap DueCalls
        IN  /\ ~ r.raises
            /\ Range(r.attempted) = DueCalls
            /\ Len(r.attempted) = Cardinality(DueCalls)
            /\ Range(r.errors) = {ErrorComponent(g) : g \in raised}
            /\ Len(r.errors) = Cardinality(raised)
            /\ (final_deliverables \ raised) \subseteq r.generated_files
            /\ r.success <=> (r.errors = <<>>)

\* C22 witness: generate_all returned with the executive deck having raised
\* and the statement of work, called after it, generated
C22_Witness ==
    /\ gen_result.present
    /\ gen_result.failing = {"executive_summary_deck"}
    /\ gen_result.result.errors = <<"executive_summary_pptx">>
    /\ "statement_of_work" \in gen_result.result.generated_files
    /\ ~ gen_result.result.success

(***************************************************************************)
(* Properties of the research plan                                         *)
(***************************************************************************)
LowTiers == {"private_limited", "startup_stealth"}
HighTiers == {"public_large", "public_medium"}

\* research() is about to return
ResearchDone == px_pc = "researching" /\ rs_idx > Len(Plan(rs_mode, info_tier))

\* C23: for a fixed mode, research issues strictly more provider queries
\* for a company detected as private_limited or startup_stealth than it
\* issues for a public_large or public_medium one.
C23_MoreQueriesWhenLow ==
    (ResearchDone /\ sessions = 1 /\ info_tier \in LowTiers) =>
        \A high \in HighTiers : Len(px_calls) > Len(Plan(rs_mode, high))

\* C24: `run --skip-synthesis` (without --skip-generation) uses the cached
\* deliverables: the synthesis provider is never called, and when the
\* markdown deliverables of an earlier run are all on disk the generation
\* phase runs on them, so a command that returned 0 has called generate_all
\* with those deliverables.
C24_SkipSynthesisUsesCache ==
    /\ [][(cli_cmd' = "run" /\ cli_args'.skip_synthesis) =>
             provider_calls' = <<>>]_vars
    /\ []((/\ cli_cmd = "run" /\ cli_args.skip_synthesis
           /\ cli_pc = "idle" /\ exit_code = 0
           /\ MarkdownDeliverables \subseteq NonEmpty(at_start.files)) =>
              /\ gen_result.present
              /\ gen_result.synthesis = MarkdownDeliverables)

\* the places of d in GENERATION_ORDER
PlacesOf(d) ==
    {<<k, i>> \in (1..Len(GENERATION_ORDER)) \X (1..Len(MarkdownList)) :
        i <= Len(GENERATION_ORDER[k]) /\ GENERATION_ORDER[k][i] = d}

\* the levels that hold d
LevelsOf(d) == {pl[1] : pl \in PlacesOf(d)}

\* every markdown deliverable is in one level, below it every prerequisite
Layered ==
    \A d \in MarkdownDeliverables :
        /\ Cardinality(PlacesOf(d)) = 1
        /\ \A p \in Range(Dependencies(d)) :
              /\ LevelsOf(p) # {}
              /\ \A k \in LevelsOf(d), j \in LevelsOf(p) : j < k

\* C25: GENERATION_ORDER is a valid layering of the configured graph: every
\* markdown deliverable is in exactly one level, and every prerequisite of a
\* deliverable of level k is in a level strictly lower than k; so when all
\* markdown deliverables are requested, the iterations of the prerequisites
\* of the deliverable being generated are over.
C25_ValidLayering ==
    /\ Layered
    /\ (/\ synth_pc = "running"
        /\ Range(target_deliverables) = MarkdownDeliverables
        /\ work_idx <= Len(WorkList(target_deliverables))) =>
          NonSentinelDeps(CurrentDeliverable) \subseteq Processed

\* C25 witness: synthesize with every markdown deliverable requested and a
\* provider that answers returned with all of them completed, none refused
\* for its dependencies
C25_Witness ==
    /\ synth_pc = "returned"
    /\ cli_pc = "idle"
    /\ Range(target_deliverables) = MarkdownDeliverables
    /\ DOMAIN generated_content = MarkdownDeliverables
    /\ errors = <<>>

\* the deliverables with an error record
Failed == {errors[i].deliverable_id : i \in 1..Len(errors)}

\* C26: at every point of synthesize the registry of the context builder
\* holds the same ids and contents as the completed set; so the context
\* built for a deliverable holds the content of each of its non-sentinel
\* prerequisites, as completed, and no content of a failed deliverable.
C26_RegistryMirrorsCompleted ==
    /\ generated_deliverables = generated_content
    /\ \A i \in 1..Len(provider_calls) :
          LET c == provider_calls[i]
          IN  /\ NonSentinelDeps(c.id) \subseteq DOMAIN c.context
              /\ \A p \in DOMAIN c.context :
                    /\ p \in DOMAIN generated_content
                    /\ c.context[p] = generated_content[p]
                    /\ p \notin Failed

\* C26 witness: synthesize returned after a failure, with a deliverable
\* generated from the contents of its two prerequisites
C26_Witness ==
    /\ synth_pc = "returned"
    /\ cli_pc = "idle"
    /\ Failed # {}
    /\ \E i \in 1..Len(provider_calls) :
          /\ provider_calls[i].id = "04_maturity_assessment"
          /\ provider_calls[i].ok
          /\ DOMAIN provider_calls[i].context = {"01_tech_inventory", "02_pain_points"}

(***************************************************************************)
(* Properties of the research cache                                        *)
(***************************************************************************)
\* one search call of a research session
SearchStep == px_pc = "researching" /\ rs_idx' = rs_idx + 1

\* the cache key of the search about to be made
SearchKey ==
    LET name == Plan(rs_mode, info_tier)[rs_idx]
    IN  _get_cache_key(name, select_model(category(name), rs_mode, info_tier))

\* the cache entries for a key
EntriesFor(cache, key) == {i \in 1..Len(cache) : cache[i].key = key}

\* the cache holds an entry for the key that is younger than its ttl_hours
FreshEntry ==
    \E i \in EntriesFor(px_cache, SearchKey) :
        clock - px_cache[i].timestamp < px_cache[i].ttl_hours

\* C27: search returns the cached result, with no provider call and no
\* change of total_cost or query_count, when the cache holds an entry for
\* the same query and parameters younger than its ttl_hours; otherwise the
\* provider is called and the entry becomes the new result with the current
\* time as timestamp.
C27_CacheLookup ==
    [][SearchStep =>
          IF FreshEntry
          THEN /\ last_call'.cached
               /\ \E i \in EntriesFor(px_cache, SearchKey) :
                     last_call'.error = px_cache[i].error
               /\ px_calls' = px_calls
               /\ px_total_cost' = px_total_cost
               /\ query_count' = query_count
               /\ px_cache' = px_cache
          ELSE /\ ~ last_call'.cached
               /\ px_calls' = Append(px_calls, SearchKey)
               /\ Cardinality(EntriesFor(px_cache', SearchKey)) = 1
               /\ \A i \in EntriesFor(px_cache', SearchKey) :
                     /\ px_cache'[i].timestamp = clock
                     /\ px_cache'[i].ttl_hours = cache_ttl_hours
                     /\ px_cache'[i].error = last_call'.error]_vars

\* C27 witness: a second session found the result of its first query in the
\* cache an aborted session left, and made no provider call for it
C27_Witness ==
    /\ sessions = 2
    /\ px_pc = "researching"
    /\ rs_idx = 2
    /\ last_call.client = "perplexity"
    /\ last_call.cached
    /\ px_calls = <<>>
    /\ query_count = 0

\* an expired entry was replaced through a provider call
C27_Expired ==
    /\ sessions = 2
    /\ px_pc = "researching"
    /\ rs_idx = 2
    /\ clock = cache_ttl_hours
    /\ ~ last_call.cached
    /\ Len(px_cache) > 1

(***************************************************************************)
(* Properties of the PDF tool's processing loop                            *)
(***************************************************************************)
\* the loop handles the chunk at pdf_i
AtChunk == pdf_pc = "idle" /\ pdf_i < NumChunks

\* the chunk is submitted to the provider: synthesize_chunk is called, and
\* the answer or the exception is recorded
Submits ==
    AtChunk /\ pdf_op' \in {"mark_chunk_completed", "mark_chunk_failed"}
            /\ pdf_pc' = "open"

\* the provider answered and mark_chunk_completed is called
Completes == AtChunk /\ pdf_op' = "mark_chunk_completed" /\ pdf_pc' = "open"

\* the loop passes the chunk without a provider call
Skips == AtChunk /\ pdf_i' = pdf_i + 1 /\ pdf_pc' = "idle"

\* a list without a repeated element
NoDuplicate(s) == \A i, j \in 1..Len(s) : s[i] = s[j] => i = j

\* the chunk ids with a failed_chunks record
FailedIds(st) == {st.failed_chunks[i][1] : i \in 1..Len(st.failed_chunks)}

\* C28 as stated: over any sequence of runs sharing one progress file each
\* chunk is completed at most once: a chunk whose result was already
\* obtained and written by mark_chunk_completed is not completed again.
C28_CompletedAtMostOnce ==
    [][Completes => pdf_files[chunk_id(pdf_i)] = NoFile]_vars

\* C28 (amended): a chunk id in the completed_chunks the run loaded or
\* recorded, which is the ledger file's list when the file parses, is never
\* submitted to the provider and is passed without a call; a chunk that is
\* not in it, also one recorded as failed, is submitted and never passed;
\* completed_chunks never holds a duplicate id, in memory or in the file.
C28_RecordedNeverResubmitted ==
    [][/\ Submits =>
             /\ chunk_id(pdf_i) \notin Range(pdf_state.completed_chunks)
             /\ IsDocument(pdf_files[ProgressFile]) =>
                   chunk_id(pdf_i) \notin
                       Range(Parse(pdf_files[ProgressFile]).completed_chunks)
       /\ Skips => chunk_id(pdf_i) \in Range(pdf_state.completed_chunks)
       /\ NoDuplicate(pdf_state'.completed_chunks)
       /\ IsDocument(pdf_files'[ProgressFile]) =>
             NoDuplicate(Parse(pdf_files'[ProgressFile]).completed_chunks)]_vars

\* C28 witness: a run that loaded a ledger with the first chunk completed
\* and the second only failed has passed the first and completed the second
C28_Witness ==
    /\ pdf_runs >= 2
    /\ load_outcome = "parsed"
    /\ pdf_pc = "idle"
    /\ pdf_op = "mark_chunk_completed"
    /\ pdf_i = 2
    /\ pdf_state.completed_chunks = <<chunk_id(0), chunk_id(1)>>
    /\ chunk_id(1) \in FailedIds(pdf_state)
    /\ chunk_id(0) \notin FailedIds(pdf_state)

(***************************************************************************)
(* Outcome of every requested target                                       *)
(***************************************************************************)
\* the ids listed in GENERATION_ORDER
OrderedIds == UNION {Range(GENERATION_ORDER[k]) : k \in 1..Len(GENERATION_ORDER)}

\* C29: after synthesize returns on a fresh orchestrator, each requested
\* target id that is in GENERATION_ORDER is either in the completed set or
\* has one error record, never both and never neither; a requested id that
\* is not in GENERATION_ORDER has no completion, no error record and no
\* provider call.
C29_ExactlyOneOutcome ==
    synth_pc = "returned" =>
        \A d \in Range(target_deliverables) :
            IF d \in OrderedIds
            THEN \/ d \in DOMAIN generated_content /\ ErrorsOf(d) = {}
                 \/ d \notin DOMAIN generated_content /\ Cardinality(ErrorsOf(d)) = 1
            ELSE /\ d \notin DOMAIN generated_content
                 /\ ErrorsOf(d) = {}
                 /\ CallsOf(d) = {}

\* C29 witness: synthesize returned for a final document, an unknown id and
\* two markdown ids, one completed and one failed at the provider
C29_Witness ==
    /\ synth_pc = "returned"
    /\ cli_pc = "idle"
    /\ {"statement_of_work", "00_unknown"} \subseteq Range(target_deliverables)
    /\ \E d \in Range(target_deliverables) \cap OrderedIds :
          HasError(d, "provider error")

\* synthesize returned with one target completed and another refused for
\* its prerequisites
C29_BothOutcomes ==
    /\ synth_pc = "returned"
    /\ cli_pc = "idle"
    /\ \E d, e \in Range(target_deliverables) :
          /\ d \in DOMAIN generated_content
          /\ HasError(e, "Dependencies not met")

(***************************************************************************)
(* Error results in the research cache                                     *)
(***************************************************************************)
\* the search step called the provider
ProviderCalled == SearchStep /\ px_calls' # px_calls

\* the items of a cache file that belong to a key
ItemsFor(file, key) == {i \in 1..Len(file) : file[i].key = key}

\* C30: search stores in the cache, and writes to the cache file, whatever
\* the retried call returns, the error result of exhausted retries
\* included; a repeated identical search within the TTL returns that error
\* result without contacting the provider.
C30_ErrorResultCached ==
    [][/\ ProviderCalled =>
             /\ \E i \in EntriesFor(px_cache', SearchKey) :
                   px_cache'[i].error = last_call'.error
             /\ cache_file' # NoCacheFile
             /\ \E i \in ItemsFor(cache_file', SearchKey) :
                   /\ cache_file'[i].kind = "entry"
                   /\ cache_file'[i].error = last_call'.error
                   /\ cache_file'[i].timestamp = clock
       /\ (SearchStep /\ \E i \in EntriesFor(px_cache, SearchKey) :
                            /\ px_cache[i].error
                            /\ clock - px_cache[i].timestamp < px_cache[i].ttl_hours)
             => /\ last_call'.cached
                /\ last_call'.error
                /\ px_calls' = px_calls]_vars

\* C30 witness: the first query of a second session was answered from the
\* cache with the error result an earlier session stored after its retries
\* were exhausted
C30_Witness ==
    /\ sessions = 2
    /\ px_pc = "researching"
    /\ rs_idx = 2
    /\ retried_calls > 0
    /\ last_call.client = "perplexity"
    /\ last_call.cached
    /\ last_call.error
    /\ px_calls = <<>>
    /\ \E i \in 1..Len(cache_file) : cache_file[i].kind = "entry" /\ cache_file[i].error

====
